---------------------------- MODULE Spec2Model ----------------------------
(***************************************************************************)
(* TransactIQ: the Injective compatibility layer API of src/src/index.js.  *)
(*                                                                         *)
(* The server keeps no state between requests apart from the wall clock    *)
(* read by Date.now() and the module-level tables SELECTOR_DB, MARKET_MAP  *)
(* and DENOM_MAP, which are objects every handler can reach.  A state of   *)
(* the model is the clock, the contents of the three tables, the request   *)
(* the client has outstanding, the response the handler gave to it, and    *)
(* the response the same request got when it was sent before.              *)
(*                                                                         *)
(* Representation of JavaScript values:                                    *)
(*   - a string is a TLA+ string; the string methods used by the code      *)
(*     (startsWith, slice, toLowerCase, includes, replace, padStart,       *)
(*     repeat, join, template literals) are computed character by          *)
(*     character;                                                          *)
(*   - an object is a function from property names to values; a property   *)
(*     that is undefined is absent from the domain, which is also what     *)
(*     JSON serialisation (res.json) makes of it;                          *)
(*   - a value that may be undefined or null is a sequence of length 0     *)
(*     (undefined / null) or 1 (the value);                                *)
(*   - a confidence c is the integer 100*c (0.98 is 98).                   *)
(***************************************************************************)
EXTENDS Integers, Sequences, FiniteSets, TLC

\* The property names of the objects the program reads and writes.  Every
\* record of the model lists its fields in this order, the one TLC keeps the
\* fields of a record in.
PropertyNames ==
  DOMAIN [ name |-> 0, type |-> 0, inputs |-> 0, data |-> 0,
           signature |-> 0, paramTypes |-> 0, paramNames |-> 0,
           category |-> 0, injectiveMapping |-> 0, msgType |-> 0,
           steps |-> 0, confidence |-> 0, matchType |-> 0, warnings |-> 0,
           originalFunction |-> 0, pattern |-> 0, score |-> 0, status |-> 0,
           migrationPath |-> 0, summary |-> 0, op |-> 0, body |-> 0,
           injectiveEquivalent |-> 0, notes |-> 0, marketId |-> 0,
           symbol |-> 0, senderAddress |-> 0, recipientAddress |-> 0,
           spenderAddress |-> 0, validator |-> 0, denom |-> 0,
           ethValue |-> 0, limbs |-> 0, rem |-> 0, zero |-> 0, e |-> 0,
           m |-> 0, success |-> 0, translation |-> 0, metadata |-> 0,
           analysis |-> 0, blockers |-> 0, overallCompatibility |-> 0,
           patterns |-> 0, recommendations |-> 0, threw |-> 0,
           selector |-> 0, functionName |-> 0, parameters |-> 0,
           decoded |-> 0, error |-> 0, code |-> 0, message |-> 0,
           feasibility |-> 0, baseHours |-> 0, featureParity |-> 0,
           hoursMin |-> 0, hoursMax |-> 0, issue |-> 0, severity |-> 0,
           resolution |-> 0, min |-> 0, max |-> 0, functions |-> 0,
           total |-> 0, supported |-> 0, partial |-> 0, unsupported |-> 0,
           details |-> 0, ok |-> 0, values |-> 0, value |-> 0, day |-> 0,
           ms |-> 0, authorization |-> 0, expiration |-> 0, sender |-> 0,
           order |-> 0, market_id |-> 0, order_info |-> 0, order_type |-> 0,
           trigger_price |-> 0, subaccount_id |-> 0, fee_recipient |-> 0,
           price |-> 0, built |-> 0, messages |-> 0, explanation |-> 0,
           gasEstimate |-> 0, injectiveGas |-> 0, injFee |-> 0,
           savings |-> 0, str |-> 0, num |-> 0, action |-> 0, params |-> 0,
           input |-> 0, context |-> 0, contractAbi |-> 0 ]

VARIABLES now, req, resp, prev, tables

vars == <<now, req, resp, prev, tables>>

-----------------------------------------------------------------------------
(* Bounds of the model.                                                    *)

\* Milliseconds the clock may advance.
MaxClock == 1

\* Largest number of patterns (explicit plus derived from the ABI) in a
\* compatibility request drawn from PatternUniverse.
MaxPatterns == 3

\* Largest number of entries in the contractAbi of an estimate request.
MaxAbi == 2

\* Largest number of patterns in the long pattern lists of ScoreRequests.
MaxScoreLen == 20

\* the longest ABI made of blocks of one function of each class
MaxFunctions == 6

-----------------------------------------------------------------------------
(* JavaScript strings.                                                     *)

Min(a, b) == IF a < b THEN a ELSE b

Max(a, b) == IF a > b THEN a ELSE b

\* s.startsWith(p)
startsWith(s, p) == Len(s) >= Len(p) /\ SubSeq(s, 1, Len(p)) = p

\* s.slice(a, b) for 0 <= a, b
slice(s, a, b) == SubSeq(s, a + 1, Min(b, Len(s)))

\* s.slice(a)
sliceFrom(s, a) == SubSeq(s, a + 1, Len(s))

\* s.includes(sub)
includes(s, sub) ==
  \E i \in 1..(Len(s) - Len(sub) + 1) : SubSeq(s, i, i + Len(sub) - 1) = sub

lowerChar(c) ==
  CASE c = "A" -> "a" [] c = "B" -> "b" [] c = "C" -> "c" [] c = "D" -> "d"
    [] c = "E" -> "e" [] c = "F" -> "f" [] c = "G" -> "g" [] c = "H" -> "h"
    [] c = "I" -> "i" [] c = "J" -> "j" [] c = "K" -> "k" [] c = "L" -> "l"
    [] c = "M" -> "m" [] c = "N" -> "n" [] c = "O" -> "o" [] c = "P" -> "p"
    [] c = "Q" -> "q" [] c = "R" -> "r" [] c = "S" -> "s" [] c = "T" -> "t"
    [] c = "U" -> "u" [] c = "V" -> "v" [] c = "W" -> "w" [] c = "X" -> "x"
    [] c = "Y" -> "y" [] c = "Z" -> "z" [] OTHER -> c

RECURSIVE toLowerCase(_)
\* s.toLowerCase()
toLowerCase(s) ==
  IF s = "" THEN "" ELSE lowerChar(Head(s)) \o toLowerCase(Tail(s))

RECURSIVE join(_, _)
\* strs.join(sep)
join(strs, sep) ==
  IF Len(strs) = 0 THEN ""
  ELSE IF Len(strs) = 1 THEN strs[1]
  ELSE strs[1] \o sep \o join(Tail(strs), sep)

RECURSIVE repeat(_, _)
\* s.repeat(n)
repeat(s, n) == IF n <= 0 THEN "" ELSE s \o repeat(s, n - 1)

\* s.padStart(n, c) for a one-character c
padStart(s, n, c) == repeat(c, n - Len(s)) \o s

\* s.replace(pat, by): the first occurrence of the string pat only
replace(s, pat, by) ==
  IF ~includes(s, pat) THEN s
  ELSE LET i == CHOOSE j \in 1..(Len(s) - Len(pat) + 1) :
                  /\ SubSeq(s, j, j + Len(pat) - 1) = pat
                  /\ \A h \in 1..(j - 1) : SubSeq(s, h, h + Len(pat) - 1) # pat
       IN  SubSeq(s, 1, i - 1) \o by \o SubSeq(s, i + Len(pat), Len(s))

digitChar(d) ==
  CASE d = 0 -> "0" [] d = 1 -> "1" [] d = 2 -> "2" [] d = 3 -> "3" [] d = 4 -> "4"
    [] d = 5 -> "5" [] d = 6 -> "6" [] d = 7 -> "7" [] d = 8 -> "8" [] d = 9 -> "9"

RECURSIVE NumberToString(_)
\* String(n), `${n}` for an integer n >= 0 below 10^21
NumberToString(n) ==
  IF n < 10 THEN digitChar(n) ELSE NumberToString(n \div 10) \o digitChar(n % 10)

-----------------------------------------------------------------------------
(* JavaScript objects and optional values.                                 *)

\* o.k, undefined when the property is absent
Get(o, k) == IF k \in DOMAIN o THEN <<o[k]>> ELSE <<>>

\* a || b for values that are strings when defined ("" is falsy)
Or(a, b) == IF a # <<>> /\ a[1] # "" THEN a ELSE b

\* the object {k: v}, without the property when v is undefined
Prop(k, v) == IF v = <<>> THEN <<>> ELSE (k :> v[1])

\* `${v}` for a string or undefined v
Template(v) == IF v = <<>> THEN "undefined" ELSE v[1]

-----------------------------------------------------------------------------
(* SELECTOR DATABASE (index.js 43-190).                                    *)

\* a registry whose UNSUPPORTED entry still names a target message type
SELECTOR_DB_Stale ==
  ( "0xe8e33700" :>
      [ name |-> "addLiquidity",
        signature |-> "addLiquidity(address,address,uint256,uint256,uint256,uint256,address,uint256)",
        paramTypes |-> << "address", "address", "uint256", "uint256",
                          "uint256", "uint256", "address", "uint256" >>,
        paramNames |-> << "tokenA", "tokenB", "amountADesired", "amountBDesired",
                          "amountAMin", "amountBMin", "to", "deadline" >>,
        category |-> "liquidity",
        injectiveMapping |->
          [ msgType |-> <<"/injective.exchange.v1beta1.MsgCreateSpotMarketOrder">>,
            confidence |-> 0,
            matchType |-> "UNSUPPORTED",
            notes |-> "Injective uses orderbook, not AMM. Consider market making." ] ] )

\* a registry with a supported entry whose name the builder has no case for
SELECTOR_DB_Unbuilt ==
  ( "0xa9059cbb" :>
      [ name |-> "send",
        signature |-> "transfer(address,uint256)",
        paramTypes |-> <<"address", "uint256">>,
        paramNames |-> <<"to", "amount">>,
        category |-> "token",
        injectiveMapping |->
          [ msgType |-> <<"/cosmos.bank.v1beta1.MsgSend">>,
            confidence |-> 98,
            matchType |-> "DIRECT" ] ] )

SELECTOR_DB ==
  ( "0xa9059cbb" :>
      [ name |-> "transfer",
        signature |-> "transfer(address,uint256)",
        paramTypes |-> <<"address", "uint256">>,
        paramNames |-> <<"to", "amount">>,
        category |-> "token",
        injectiveMapping |->
          [ msgType |-> <<"/cosmos.bank.v1beta1.MsgSend">>,
            confidence |-> 98,
            matchType |-> "DIRECT" ] ] )
  @@
  ( "0x095ea7b3" :>
      [ name |-> "approve",
        signature |-> "approve(address,uint256)",
        paramTypes |-> <<"address", "uint256">>,
        paramNames |-> <<"spender", "amount">>,
        category |-> "token",
        injectiveMapping |->
          [ msgType |-> <<"/cosmos.authz.v1beta1.MsgGrant">>,
            confidence |-> 85,
            matchType |-> "SEMANTIC",
            notes |-> "Injective uses authz module instead of per-token approvals" ] ] )
  @@
  ( "0x23b872dd" :>
      [ name |-> "transferFrom",
        signature |-> "transferFrom(address,address,uint256)",
        paramTypes |-> <<"address", "address", "uint256">>,
        paramNames |-> <<"from", "to", "amount">>,
        category |-> "token",
        injectiveMapping |->
          [ msgType |-> <<"/cosmos.bank.v1beta1.MsgSend">>,
            confidence |-> 80,
            matchType |-> "SEMANTIC",
            notes |-> "Requires authz grant check" ] ] )
  @@
  ( "0x38ed1739" :>
      [ name |-> "swapExactTokensForTokens",
        signature |-> "swapExactTokensForTokens(uint256,uint256,address[],address,uint256)",
        paramTypes |-> <<"uint256", "uint256", "address[]", "address", "uint256">>,
        paramNames |-> <<"amountIn", "amountOutMin", "path", "to", "deadline">>,
        category |-> "swap",
        injectiveMapping |->
          [ msgType |-> <<"/injective.exchange.v1beta1.MsgCreateSpotMarketOrder">>,
            confidence |-> 90,
            matchType |-> "SEMANTIC",
            notes |-> "AMM swap converts to orderbook market order" ] ] )
  @@
  ( "0x7ff36ab5" :>
      [ name |-> "swapExactETHForTokens",
        signature |-> "swapExactETHForTokens(uint256,address[],address,uint256)",
        paramTypes |-> <<"uint256", "address[]", "address", "uint256">>,
        paramNames |-> <<"amountOutMin", "path", "to", "deadline">>,
        category |-> "swap",
        injectiveMapping |->
          [ msgType |-> <<"COMPOSITE">>,
            steps |-> << "/injective.exchange.v1beta1.MsgDeposit",
                         "/injective.exchange.v1beta1.MsgCreateSpotMarketOrder" >>,
            confidence |-> 85,
            matchType |-> "COMPOSITE",
            notes |-> "Requires deposit to subaccount first" ] ] )
  @@
  ( "0xe8e33700" :>
      [ name |-> "addLiquidity",
        signature |-> "addLiquidity(address,address,uint256,uint256,uint256,uint256,address,uint256)",
        paramTypes |-> << "address", "address", "uint256", "uint256",
                          "uint256", "uint256", "address", "uint256" >>,
        paramNames |-> << "tokenA", "tokenB", "amountADesired", "amountBDesired",
                          "amountAMin", "amountBMin", "to", "deadline" >>,
        category |-> "liquidity",
        injectiveMapping |->
          [ msgType |-> <<>>,
            confidence |-> 0,
            matchType |-> "UNSUPPORTED",
            notes |-> "Injective uses orderbook, not AMM. Consider market making." ] ] )
  @@
  ( "0xa694fc3a" :>
      [ name |-> "stake",
        signature |-> "stake(uint256)",
        paramTypes |-> <<"uint256">>,
        paramNames |-> <<"amount">>,
        category |-> "staking",
        injectiveMapping |->
          [ msgType |-> <<"/cosmos.staking.v1beta1.MsgDelegate">>,
            confidence |-> 95,
            matchType |-> "DIRECT" ] ] )
  @@
  ( "0x2e1a7d4d" :>
      [ name |-> "withdraw",
        signature |-> "withdraw(uint256)",
        paramTypes |-> <<"uint256">>,
        paramNames |-> <<"amount">>,
        category |-> "staking",
        injectiveMapping |->
          [ msgType |-> <<"/cosmos.staking.v1beta1.MsgUndelegate">>,
            confidence |-> 95,
            matchType |-> "DIRECT" ] ] )
  @@
  ( "0x3d18b912" :>
      [ name |-> "getReward",
        signature |-> "getReward()",
        paramTypes |-> <<>>,
        paramNames |-> <<>>,
        category |-> "staking",
        injectiveMapping |->
          [ msgType |-> <<"/cosmos.distribution.v1beta1.MsgWithdrawDelegatorReward">>,
            confidence |-> 95,
            matchType |-> "DIRECT" ] ] )
  @@
  ( "0xab9c4b5d" :>
      [ name |-> "flashLoan",
        signature |-> "flashLoan(address,address[],uint256[],uint256[],address,bytes,uint16)",
        paramTypes |-> << "address", "address[]", "uint256[]", "uint256[]",
                          "address", "bytes", "uint16" >>,
        paramNames |-> << "receiverAddress", "assets", "amounts", "modes",
                          "onBehalfOf", "params", "referralCode" >>,
        category |-> "flash",
        injectiveMapping |->
          [ msgType |-> <<>>,
            confidence |-> 0,
            matchType |-> "UNSUPPORTED",
            notes |-> "Flash loans not supported on Injective" ] ] )

(* MARKET & DENOM MAPPINGS (index.js 196-204).                             *)

MARKET_MAP ==
  ( "INJ-USDT" :>
      [marketId |-> "0x0611780ba69656949525013d947713300f56c37b6175e02f26bffa495c3208fe"] )
  @@
  ( "WETH-USDT" :>
      [marketId |-> "0xd1956e20d74eeb1febe31cd37060781ff1cb266f49e0512b446a5fafa9a16034"] )

DENOM_MAP ==
  ( "0xdAC17F958D2ee523a2206206994597C13D831ec7" :>
      [symbol |-> "USDT", denom |-> "peggy0xdAC17F958D2ee523a2206206994597C13D831ec7"] )
  @@
  ( "0xC02aaA39b223FE8D0A0e5C4F27eAD9083C756Cc2" :>
      [symbol |-> "WETH", denom |-> "peggy0xC02aaA39b223FE8D0A0e5C4F27eAD9083C756Cc2"] )

-----------------------------------------------------------------------------
(* ethers.id(text): the Keccak-256 hash of the UTF-8 bytes of text, as a   *)
(* 0x-prefixed lower-case hex string.  The hash is tabulated for the       *)
(* strings the model's requests can produce; the values are the real       *)
(* digests.                                                                *)

id(text) ==
  CASE text = "transfer(address,uint256)"
         -> "0xa9059cbb2ab09eb219583f4a59a5d0623ade346d962bcd4e46b11da047c9049b"
    [] text = "approve(address,uint256)"
         -> "0x095ea7b334ae44009aa867bfb386f5c3b4b443ac6f0ee573fa91c4608fbadfba"
    [] text = "transferFrom(address,address,uint256)"
         -> "0x23b872dd7302113369cda2901243429419bec145408fa8b352b3dd92b66c680b"
    [] text = "swapExactTokensForTokens(uint256,uint256,address[],address,uint256)"
         -> "0x38ed1739ee07daf49933f1800d1a9bc8d39a6876ea11e643f9c4c39c66df0ee8"
    [] text = "swapExactETHForTokens(uint256,address[],address,uint256)"
         -> "0x7ff36ab5759d6a6f3666c17e7dae0b66684a53581fd3cada68e6fd19d01f9b11"
    [] text = "addLiquidity(address,address,uint256,uint256,uint256,uint256,address,uint256)"
         -> "0xe8e337003368fc77c2595d117bb98b627132bf8afacee71c7334a2a489802c4c"
    [] text = "stake(uint256)"
         -> "0xa694fc3a9be557197d0136d5e7dd615518dbfe3af0753bf945e64e3bed38fba8"
    [] text = "withdraw(uint256)"
         -> "0x2e1a7d4d13322e7b96f9a57413e1525c250fb7a9021cf91d1540d5b69f16a49f"
    [] text = "getReward()"
         -> "0x3d18b912414e03e11f8639a2ba6d0a824d0c79a512536b3b2fc173f05201421d"
    [] text = "flashLoan(address,address[],uint256[],uint256[],address,bytes,uint16)"
         -> "0xab9c4b5ddd7431ce4a1757257f6705ebcd264d177caf1ba9789e00504a5e74ef"
    [] text = "flashLoan(address,uint256)"
         -> "0x9d9e465cab544978d9f4adcf88691b84b12658c202d12c94fd6019a83e702104"
    [] text = "removeLiquidity(address,address,uint256)"
         -> "0xd752fab2ff56e4067299b65e193ce401a6c058bec1759299a922852f9506e7f5"
    [] text = "mint(address,uint256)"
         -> "0x40c10f19c047ae7dfa66d6312b683d2ea3dfbcb4159e96b967c5f4b0a86f2842"
    [] text = "FLASHMINT(uint256)"
         -> "0x4fe3d5bad3cb52966d1d978bf39fe270b11bd27e7bebd68ec8c5a530ddfbd379"
    [] text = "Transfer(address,address,uint256)"
         -> "0xddf252ad1be2c89b69c2b068fc378daa952ba7f163c4a11628f55a4df523b3ef"
    [] text = "undefined()"
         -> "0x3af39c214ef9ce7301becac0feecfeca04d815964a9d5f1147e4cbd227fe0d3d"
    [] text = "742d35cc6634c0532925a3b844bc9e7595f2bd73"
         -> "0xc37ef3524f8aa303fa388d796dfb0fd5b3866cf0e996b47ca09b5612e2821ea3"
    [] text = "dac17f958d2ee523a2206206994597c13d831ec7"
         -> "0x49de6b9eea964c03068ed436a2640dda792ce172920e6100977f27cc676bedc8"
    [] text = "c02aaa39b223fe8d0a0e5c4f27ead9083c756cc2"
         -> "0xf1303d7c1fd7ebeeadb03bdc826b8f11dc558e206b5cf2055a8d9b434d644130"
    [] text = "0000000000000000000000000000000000000001"
         -> "0x1ef5221ff18babf9d4a76e31874600de7203ebda1de9d845db6a2cf841fcad53"

-----------------------------------------------------------------------------
(* IEEE-754 double arithmetic of the score (index.js 559, 635).            *)
(*                                                                         *)
(* A positive double is [e, m]: m = <<m1, .., m5>> is its significand in   *)
(* base 2^13, M = m1*2^52 + m2*2^39 + m3*2^26 + m4*2^13 + m5, and its      *)
(* value is M * 2^(e - 52).  FDiv returns a normalised double (m1 = 1, so  *)
(* M has 53 bits); FMul100 rounds the exact product to 53 significant      *)
(* bits and leaves it unnormalised (m1 in 100..200).  Operands are         *)
(* quotients k/d of integers with 0 <= k <= d < 2^17.                      *)

RECURSIVE Pow2(_)
Pow2(n) == IF n = 0 THEN 1 ELSE 2 * Pow2(n - 1)

Limb == Pow2(13)

RECURSIVE Exponent(_, _)
\* the e with 2^e <= k/d < 2^(e+1)
Exponent(k, d) ==
  IF k >= 2 * d THEN 1 + Exponent(k, 2 * d)
  ELSE IF k < d THEN Exponent(2 * k, d) - 1
  ELSE 0

RECURSIVE Carry(_, _)
\* the significand m plus c units of its last limb
Carry(m, c) ==
  IF m = <<>> THEN <<>>
  ELSE LET n == Len(m)
           t == m[n] + c
       IN  IF n = 1 THEN <<t>>
           ELSE Carry(SubSeq(m, 1, n - 1), t \div Limb) \o <<t % Limb>>

RECURSIVE LongDiv(_, _, _)
\* the next n base-2^13 digits of r/d, for r < d, and the remainder
LongDiv(r, d, n) ==
  IF n = 0 THEN [limbs |-> <<>>, rem |-> r]
  ELSE LET rest == LongDiv((r * Limb) % d, d, n - 1)
       IN  [limbs |-> <<(r * Limb) \div d>> \o rest.limbs, rem |-> rest.rem]

\* the double nearest to k/d (ties to even)
FDiv(k, d) ==
  IF k = 0 THEN [zero |-> TRUE, e |-> 0, m |-> <<0, 0, 0, 0, 0>>]
  ELSE LET e == Exponent(k, d)
           K == IF e < 0 THEN k * Pow2(-e) ELSE k
           D == IF e > 0 THEN d * Pow2(e) ELSE d
           q == LongDiv(K - D, D, 4)
           m == <<1>> \o q.limbs
           up == 2 * q.rem > D \/ (2 * q.rem = D /\ m[5] % 2 = 1)
           r == Carry(m, IF up THEN 1 ELSE 0)
       IN  IF r[1] = 2 THEN [zero |-> FALSE, e |-> e + 1, m |-> <<1, 0, 0, 0, 0>>]
           ELSE [zero |-> FALSE, e |-> e, m |-> r]

\* the double nearest to v * 100 (ties to even)
FMul100(v) ==
  IF v.zero THEN v
  ELSE LET p == Carry([i \in 1..5 |-> IF i = 5 THEN 0 ELSE v.m[i] * 100], v.m[5] * 100)
           t == IF p[1] >= 128 THEN 7 ELSE 6
           rem == p[5] % Pow2(t)
           half == Pow2(t - 1)
           up == rem > half \/ (rem = half /\ (p[5] \div Pow2(t)) % 2 = 1)
       IN  [zero |-> FALSE, e |-> v.e,
            m |-> Carry([p EXCEPT ![5] = 0], p[5] - rem + (IF up THEN Pow2(t) ELSE 0))]

\* Math.round(v): the integer nearest to v, ties upwards; for v.e <= 0
MathRound(v) ==
  IF v.zero THEN 0
  ELSE LET j == -v.e
           half == IF j = 0 THEN v.m[2] \div (Limb \div 2)
                   ELSE (v.m[1] \div Pow2(j - 1)) % 2
       IN  (v.m[1] \div Pow2(j)) + half

\* Math.round(((supported + partial * 0.5) / total) * 100)
score(supported, partial, total) ==
  MathRound(FMul100(FDiv(2 * supported + partial, 2 * total)))

-----------------------------------------------------------------------------
(* Signatures derived from a described interface (index.js 523-526,        *)
(* 588-593).                                                               *)

\* i.type === 'function'
isFunction(i) == Get(i, "type") = <<"function">>

\* functionsOf without the filter
functionsOfAll(contractAbi) == contractAbi

\* contractAbi.filter(i => i.type === 'function')
functionsOf(contractAbi) == SelectSeq(contractAbi, isFunction)

\* `${func.name}(${(func.inputs || []).map(i => i.type).join(',')})`
signatureOf(func) ==
  LET inputs == IF "inputs" \in DOMAIN func THEN func.inputs ELSE <<>>
      types == [i \in 1..Len(inputs) |->
                  IF "type" \in DOMAIN inputs[i] THEN inputs[i].type ELSE ""]
  IN  Template(Get(func, "name")) \o "(" \o join(types, ",") \o ")"

\* results.filter(r => r.status === ...).length: the number of elements of
\* s whose status is one of statuses
Count(s, statuses) == Cardinality({i \in 1..Len(s) : s[i].status \in statuses})

-----------------------------------------------------------------------------
(* POST /api/v1/compatibility (index.js 516-577).                          *)

\* checkPattern with the keywords looked for before the registry
checkPatternKeywordFirst(pattern) ==
  LET selector == slice(id(pattern), 0, 10)
      funcInfo == Get(SELECTOR_DB, selector)
      lower == toLowerCase(pattern)
  IN  IF includes(lower, "flash")
      THEN [pattern |-> pattern, status |-> "UNSUPPORTED",
            notes |-> "Flash loans not supported"]
      ELSE IF includes(lower, "liquidity")
      THEN [pattern |-> pattern, status |-> "UNSUPPORTED", notes |-> "AMM not supported"]
      ELSE IF funcInfo = <<>>
      THEN [pattern |-> pattern, status |-> "UNKNOWN", notes |-> "Not in database"]
      ELSE LET m == funcInfo[1].injectiveMapping
           IN  [ confidence |-> m.confidence,
                 pattern |-> pattern,
                 status |-> IF m.matchType = "UNSUPPORTED" THEN "UNSUPPORTED"
                            ELSE IF m.matchType = "DIRECT" THEN "SUPPORTED"
                            ELSE "PARTIAL",
                 injectiveEquivalent |-> m.msgType ]
               @@ Prop("notes", Get(m, "notes"))

\* the per-pattern verdict (index.js 533-554)
checkPattern(pattern) ==
  LET selector == slice(id(pattern), 0, 10)
      funcInfo == Get(SELECTOR_DB, selector)
  IN  IF funcInfo = <<>>
      THEN LET lower == toLowerCase(pattern)
           IN  IF includes(lower, "flash")
               THEN [pattern |-> pattern, status |-> "UNSUPPORTED",
                     notes |-> "Flash loans not supported"]
               ELSE IF includes(lower, "liquidity")
               THEN [pattern |-> pattern, status |-> "UNSUPPORTED",
                     notes |-> "AMM not supported"]
               ELSE [pattern |-> pattern, status |-> "UNKNOWN",
                     notes |-> "Not in database"]
      ELSE LET m == funcInfo[1].injectiveMapping
           IN  [ confidence |-> m.confidence,
                 pattern |-> pattern,
                 status |-> IF m.matchType = "UNSUPPORTED" THEN "UNSUPPORTED"
                            ELSE IF m.matchType = "DIRECT" THEN "SUPPORTED"
                            ELSE "PARTIAL",
                 injectiveEquivalent |-> m.msgType ]
               @@ Prop("notes", Get(m, "notes"))

\* compatibilityStatus with the thresholds left in the lower band
compatibilityStatusStrict(s) ==
  IF s > 80 THEN "MOSTLY_COMPATIBLE"
  ELSE IF s > 50 THEN "PARTIALLY_COMPATIBLE"
  ELSE "INCOMPATIBLE"

\* score >= 80 ? ... : score >= 50 ? ... : ... (index.js 565)
compatibilityStatus(s) ==
  IF s >= 80 THEN "MOSTLY_COMPATIBLE"
  ELSE IF s >= 50 THEN "PARTIALLY_COMPATIBLE"
  ELSE "INCOMPATIBLE"

\* all patterns of a request: the explicit ones, then one per function of
\* the ABI (index.js 518-527)
allPatternsOf(body) ==
  LET patterns == IF "patterns" \in DOMAIN body THEN body.patterns ELSE <<>>
      contractAbi == IF "contractAbi" \in DOMAIN body THEN body.contractAbi ELSE <<>>
      functions == functionsOf(contractAbi)
  IN  patterns \o [i \in 1..Len(functions) |-> signatureOf(functions[i])]

compatibility(body) ==
  LET allPatterns == allPatternsOf(body)
      results == [i \in 1..Len(allPatterns) |-> checkPattern(allPatterns[i])]
      supported == Count(results, {"SUPPORTED"})
      partial == Count(results, {"PARTIAL"})
      unsupported == Count(results, {"UNSUPPORTED", "UNKNOWN"})
      sc == score(supported, partial, Len(results))
  IN  IF Len(allPatterns) = 0
      THEN [ status |-> 400,
             body |-> [ success |-> FALSE,
                        error |-> [ code |-> "MISSING_INPUT",
                                    message |-> "Provide patterns or ABI" ] ] ]
      ELSE [ status |-> 200,
             body |-> [ success |-> TRUE,
                        overallCompatibility |->
                          [ score |-> sc,
                            status |-> compatibilityStatus(sc),
                            summary |-> NumberToString(supported) \o "/"
                                        \o NumberToString(Len(results)) \o " supported" ],
                        patterns |-> results,
                        recommendations |->
                          (IF supported < Len(results)
                           THEN <<"Some patterns need workarounds">> ELSE <<>>)
                          \o (IF unsupported > 0
                              THEN <<"Unsupported patterns require redesign">> ELSE <<>>) ] ]

-----------------------------------------------------------------------------
(* POST /api/v1/migrate/estimate (index.js 580-657).                       *)
(*                                                                         *)
(* The scaled hours (Math.log2) and the constant cost comparison are left  *)
(* out of the response; baseHours is the band's range before scaling.      *)

\* the classification of one function (index.js 591-615)
classifyFunction(func) ==
  LET sig == signatureOf(func)
      selector == slice(id(sig), 0, 10)
      info == Get(SELECTOR_DB, selector)
      matchType == IF info = <<>> THEN <<>> ELSE <<info[1].injectiveMapping.matchType>>
      msgType == IF info = <<>> THEN <<>> ELSE info[1].injectiveMapping.msgType
      status == IF matchType = <<"DIRECT">> THEN "supported"
                ELSE IF matchType = <<"UNSUPPORTED">> THEN "unsupported"
                ELSE "partial"
      migrationPath == IF matchType = <<"DIRECT">> THEN msgType[1]
                       ELSE IF matchType = <<"UNSUPPORTED">> THEN "Requires redesign"
                       ELSE Or(msgType, <<"Custom handler">>)[1]
  IN  IF "name" \in DOMAIN func
      THEN [ name |-> func.name, signature |-> sig, status |-> status,
             migrationPath |-> migrationPath ]
      ELSE [signature |-> sig, status |-> status, migrationPath |-> migrationPath]

\* feasibilityOf with the thresholds left in the lower band
feasibilityOfInclusive(weighted, total) ==
  IF 2 * weighted <= 3 * total
  THEN [feasibility |-> "STRAIGHTFORWARD", hoursMin |-> 8, hoursMax |-> 24]
  ELSE IF 2 * weighted <= 5 * total
  THEN [feasibility |-> "MODERATE", hoursMin |-> 24, hoursMax |-> 80]
  ELSE IF 2 * weighted <= 7 * total
  THEN [feasibility |-> "COMPLEX", hoursMin |-> 80, hoursMax |-> 200]
  ELSE [feasibility |-> "REQUIRES_REDESIGN", hoursMin |-> 200, hoursMax |-> 500]

\* the band of complexity = weighted / total (index.js 618-624); the
\* thresholds 1.5, 2.5, 3.5 are doubles and the quotient of two integers
\* below 2^52 rounds to neither side of them, so the comparisons are exact
feasibilityOf(weighted, total) ==
  IF 2 * weighted < 3 * total
  THEN [feasibility |-> "STRAIGHTFORWARD", hoursMin |-> 8, hoursMax |-> 24]
  ELSE IF 2 * weighted < 5 * total
  THEN [feasibility |-> "MODERATE", hoursMin |-> 24, hoursMax |-> 80]
  ELSE IF 2 * weighted < 7 * total
  THEN [feasibility |-> "COMPLEX", hoursMin |-> 80, hoursMax |-> 200]
  ELSE [feasibility |-> "REQUIRES_REDESIGN", hoursMin |-> 200, hoursMax |-> 500]

\* blockersOf with one entry per unsupported function
blockersOfEach(unsupported) ==
  [ i \in 1..unsupported |->
      [issue |-> "Unsupported patterns", severity |-> "HIGH", resolution |-> "Redesign or remove"] ]

\* the blockers list (index.js 650-652)
blockersOf(unsupported) ==
  IF unsupported > 0
  THEN << [ issue |-> "Unsupported patterns", severity |-> "HIGH",
            resolution |-> "Redesign or remove" ] >>
  ELSE <<>>

estimate(body) ==
  LET contractAbi == IF "contractAbi" \in DOMAIN body THEN body.contractAbi ELSE <<>>
      functions == functionsOf(contractAbi)
      details == [i \in 1..Len(functions) |-> classifyFunction(functions[i])]
      supported == Count(details, {"supported"})
      partial == Count(details, {"partial"})
      unsupported == Count(details, {"unsupported"})
      total == IF Len(functions) = 0 THEN 1 ELSE Len(functions)
      band == feasibilityOf(supported + partial * 2 + unsupported * 4, total)
  IN  IF Len(contractAbi) = 0
      THEN [ status |-> 400,
             body |-> [ success |-> FALSE,
                        error |-> [ code |-> "MISSING_INPUT",
                                    message |-> "Provide contractAbi" ] ] ]
      ELSE [ status |-> 200,
             body |-> [ summary |-> [ feasibility |-> band.feasibility,
                                      baseHours |-> [min |-> band.hoursMin, max |-> band.hoursMax],
                                      featureParity |-> score(supported, partial, total) ],
                        success |-> TRUE,
                        analysis |-> [ functions |->
                                         [ total |-> total, supported |-> supported,
                                           partial |-> partial, unsupported |-> unsupported,
                                           details |-> details ] ],
                        blockers |-> blockersOf(unsupported) ] ]

-----------------------------------------------------------------------------
(* ethers.AbiCoder.defaultAbiCoder().decode (ethers v6), on the hex text.  *)
(*                                                                         *)
(* The head holds one 32-byte word per type: the value of a static type    *)
(* (address, uintN), the byte offset of the tail of a dynamic one (T[],    *)
(* bytes).  A read past the end of the data, an address word above 2^160,  *)
(* an offset or length that is no index and data that is no hex string     *)
(* make the decode, or the later read of the value, throw inside the try   *)
(* block of decodeCalldata.                                                *)

HexDigits == "0123456789abcdefABCDEF"

isHex(s) == \A i \in 1..Len(s) : includes(HexDigits, SubSeq(s, i, i))

hexVal(c) ==
  CASE c = "0" -> 0 [] c = "1" -> 1 [] c = "2" -> 2 [] c = "3" -> 3
    [] c = "4" -> 4 [] c = "5" -> 5 [] c = "6" -> 6 [] c = "7" -> 7
    [] c = "8" -> 8 [] c = "9" -> 9
    [] c \in {"a", "A"} -> 10 [] c \in {"b", "B"} -> 11 [] c \in {"c", "C"} -> 12
    [] c \in {"d", "D"} -> 13 [] c \in {"e", "E"} -> 14 [] c \in {"f", "F"} -> 15

RECURSIVE stripZeros(_)
stripZeros(s) == IF s # "" /\ Head(s) = "0" THEN stripZeros(Tail(s)) ELSE s

RECURSIVE hexToNat(_)
hexToNat(s) ==
  IF s = "" THEN 0 ELSE 16 * hexToNat(SubSeq(s, 1, Len(s) - 1)) + hexVal(SubSeq(s, Len(s), Len(s)))

\* reader.readIndex(): the word as a number, -1 when it is above 2^24 (no
\* index into data of the sizes modelled)
readIndex(word) ==
  LET s == stripZeros(word) IN IF Len(s) > 6 THEN -1 ELSE hexToNat(s)

DecimalBase == 10 * 10 * 10 * 10

RECURSIVE MulAdd(_, _, _)
\* the base-10^4 numeral m times mul plus c
MulAdd(m, mul, c) ==
  IF m = <<>>
  THEN (IF c = 0 THEN <<>> ELSE MulAdd(<<>>, mul, c \div DecimalBase) \o <<c % DecimalBase>>)
  ELSE LET n == Len(m)
           t == m[n] * mul + c
       IN  MulAdd(SubSeq(m, 1, n - 1), mul, t \div DecimalBase) \o <<t % DecimalBase>>

RECURSIVE hexToLimbs(_, _)
\* the base-10^4 numeral of the hex text s after the numeral acc, read four
\* hex digits at a time
hexToLimbs(s, acc) ==
  IF s = "" THEN acc
  ELSE LET k == Min(4, Len(s))
       IN  hexToLimbs(sliceFrom(s, k), MulAdd(acc, Pow2(4 * k), hexToNat(SubSeq(s, 1, k))))

RECURSIVE limbsToString(_)
limbsToString(m) ==
  IF m = <<>> THEN ""
  ELSE padStart(NumberToString(m[1]), 4, "0") \o limbsToString(Tail(m))

\* the word spelled in hexadecimal instead of decimal
bigintToStringHex(word) ==
  IF stripZeros(word) = "" THEN "0" ELSE "0x" \o stripZeros(word)

\* BigInt(0x<word>).toString(): the decimal numeral of the word
bigintToString(word) ==
  LET m == hexToLimbs(stripZeros(word), <<>>)
  IN  IF m = <<>> THEN "0" ELSE NumberToString(m[1]) \o limbsToString(Tail(m))

upperChar(c) ==
  CASE c = "a" -> "A" [] c = "b" -> "B" [] c = "c" -> "C"
    [] c = "d" -> "D" [] c = "e" -> "E" [] c = "f" -> "F" [] OTHER -> c

\* ethers.getAddress: the EIP-55 checksum spelling of 40 hex digits
getAddress(hex40) ==
  LET lower == toLowerCase(hex40)
      hash == sliceFrom(id(lower), 2)
      ch(i) == IF hexVal(SubSeq(hash, i, i)) >= 8
               THEN upperChar(SubSeq(lower, i, i)) ELSE SubSeq(lower, i, i)
  IN  "0x" \o join([i \in 1..40 |-> ch(i)], "")

isDynamic(type) == type = "bytes" \/ (Len(type) > 2 /\ sliceFrom(type, Len(type) - 2) = "[]")

\* the 32-byte word at byte offset off of the hex text, if it is all there
wordAt(hex, off) ==
  IF off >= 0 /\ 2 * off + 64 <= Len(hex) THEN <<SubSeq(hex, 2 * off + 1, 2 * off + 64)>>
  ELSE <<>>

\* the string of a static value: decoded[i].toString()
decodeStatic(type, word) ==
  IF type = "address"
  THEN IF stripZeros(SubSeq(word, 1, 24)) # ""
       THEN [ok |-> FALSE, value |-> "value exceeds width"]
       ELSE [ok |-> TRUE, value |-> getAddress(SubSeq(word, 25, 64))]
  ELSE IF type = "uint16"
  THEN [ok |-> TRUE, value |-> bigintToString(SubSeq(word, 61, 64))]
  ELSE [ok |-> TRUE, value |-> bigintToString(word)]

Overrun == [ok |-> FALSE, value |-> "data out-of-bounds"]

\* the outcome of reading the values one after the other: the first error
\* thrown, or the values joined by sep
readAll(elems, sep) ==
  LET bad == {i \in 1..Len(elems) : ~elems[i].ok}
  IN  IF bad # {} THEN elems[CHOOSE i \in bad : \A j \in bad : i <= j]
      ELSE [ok |-> TRUE, value |-> join([i \in 1..Len(elems) |-> elems[i].value], sep)]

\* the string of a dynamic value whose tail starts at byte offset off
decodeDynamic(type, hex, off) ==
  LET lengthWord == wordAt(hex, off)
      count == IF lengthWord = <<>> THEN -1 ELSE readIndex(lengthWord[1])
  IN  IF count < 0 THEN Overrun
      ELSE IF type = "bytes"
      THEN LET aligned == ((count + 31) \div 32) * 32
           IN  IF 2 * (off + 32 + aligned) > Len(hex) THEN Overrun
               ELSE [ ok |-> TRUE,
                      value |-> "0x" \o toLowerCase(
                                  SubSeq(hex, 2 * (off + 32) + 1, 2 * (off + 32 + count))) ]
      ELSE readAll([i \in 1..count |->
                      LET w == wordAt(hex, off + 32 * i)
                      IN  IF w = <<>> THEN Overrun
                          ELSE decodeStatic(SubSeq(type, 1, Len(type) - 2), w[1])],
                   ",")

\* the value in the i-th head slot of the hex text
decodeSlot(type, hex, i) ==
  LET w == wordAt(hex, 32 * (i - 1))
  IN  IF w = <<>> THEN Overrun
      ELSE IF isDynamic(type)
      THEN LET off == readIndex(w[1])
           IN  IF off < 0 THEN Overrun ELSE decodeDynamic(type, hex, off)
      ELSE decodeStatic(type, w[1])

\* decoded[i].toString() for every i: the strings, or the message of the
\* first error thrown
toStrings(slots) ==
  LET bad == {i \in 1..Len(slots) : ~slots[i].ok}
  IN  IF bad # {}
      THEN [ error |-> slots[CHOOSE i \in bad : \A j \in bad : i <= j].value,
             ok |-> FALSE,
             values |-> <<>> ]
      ELSE [error |-> "", ok |-> TRUE, values |-> [i \in 1..Len(slots) |-> slots[i].value]]

\* abiCoder.decode(types, data) followed by decoded[i].toString() for
\* every i
abiDecode(types, data) ==
  LET hex == sliceFrom(data, 2)
  IN  IF ~isHex(hex) \/ Len(hex) % 2 = 1
      THEN [error |-> "invalid BytesLike value", ok |-> FALSE, values |-> <<>>]
      ELSE toStrings([i \in 1..Len(types) |-> decodeSlot(types[i], hex, i)])

-----------------------------------------------------------------------------
(* HELPER FUNCTIONS (index.js 210-250).                                    *)

\* the DecodedCall of a call of the registered function f whose parameters
\* decoded to d (index.js 221-245)
decodedCall(selector, f, d) ==
  IF ~d.ok
  THEN [ threw |-> FALSE, selector |-> selector,
         functionName |-> f.name, decoded |-> FALSE, error |-> d.error ]
  ELSE [ signature |-> f.signature,
         category |-> f.category,
         threw |-> FALSE,
         selector |-> selector,
         functionName |-> f.name,
         parameters |-> [i \in 1..Len(d.values) |->
                           [ name |-> f.paramNames[i],
                             type |-> f.paramTypes[i],
                             value |-> d.values[i] ]],
         decoded |-> TRUE ]

\* decodeCalldata(calldata): the DecodedCall, or [threw |-> TRUE] when it
\* throws 'Invalid calldata'
decodeCalldata(calldata) ==
  IF calldata = <<>> \/ ~startsWith(calldata[1], "0x") \/ Len(calldata[1]) < 10
  THEN [threw |-> TRUE, decoded |-> FALSE, error |-> "Invalid calldata"]
  ELSE LET selector == toLowerCase(slice(calldata[1], 0, 10))
           paramsData == "0x" \o sliceFrom(calldata[1], 10)
           funcInfo == Get(SELECTOR_DB, selector)
       IN  IF funcInfo = <<>>
           THEN [ threw |-> FALSE, selector |-> selector, decoded |-> FALSE,
                  error |-> "Unknown selector" ]
           ELSE decodedCall(selector, funcInfo[1],
                            IF Len(funcInfo[1].paramTypes) > 0 /\ Len(paramsData) > 2
                            THEN abiDecode(funcInfo[1].paramTypes, paramsData)
                            ELSE [error |-> "", ok |-> TRUE, values |-> <<>>])

\* getSubaccountId(address)
getSubaccountId(address) ==
  "0x" \o padStart(replace(address, "inj", ""), 40, "0") \o repeat("0", 24)

-----------------------------------------------------------------------------
(* MESSAGE BUILDERS (index.js 256-319).  Arguments are optional values;    *)
(* an undefined argument leaves its property out of the message.           *)

\* the default value of a destructured parameter: used when it is undefined
Default(v, d) == IF v = <<>> THEN <<d>> ELSE v

\* MsgSend with the two addresses exchanged
MsgSendSwapped(from, to, amount, denom) ==
  ("@type" :> "/cosmos.bank.v1beta1.MsgSend")
  @@ Prop("from_address", to)
  @@ Prop("to_address", from)
  @@ ("amount" :> << Prop("denom", Default(denom, "inj")) @@ Prop("amount", amount) >>)

MsgSend(from, to, amount, denom) ==
  ("@type" :> "/cosmos.bank.v1beta1.MsgSend")
  @@ Prop("from_address", from)
  @@ Prop("to_address", to)
  @@ ("amount" :> << Prop("denom", Default(denom, "inj")) @@ Prop("amount", amount) >>)

MsgDelegate(delegator, validator, amount) ==
  ("@type" :> "/cosmos.staking.v1beta1.MsgDelegate")
  @@ Prop("delegator_address", delegator)
  @@ Prop("validator_address", Or(validator, <<"injvaloper1xxx">>))
  @@ ("amount" :> (("denom" :> "inj") @@ Prop("amount", amount)))

MsgUndelegate(delegator, validator, amount) ==
  ("@type" :> "/cosmos.staking.v1beta1.MsgUndelegate")
  @@ Prop("delegator_address", delegator)
  @@ Prop("validator_address", Or(validator, <<"injvaloper1xxx">>))
  @@ ("amount" :> (("denom" :> "inj") @@ Prop("amount", amount)))

MsgWithdrawReward(delegator, validator) ==
  ("@type" :> "/cosmos.distribution.v1beta1.MsgWithdrawDelegatorReward")
  @@ Prop("delegator_address", delegator)
  @@ Prop("validator_address", Or(validator, <<"injvaloper1xxx">>))

MsPerDay == 24 * 60 * 60 * 1000

\* new Date(t + 365 * 24 * 60 * 60 * 1000).toISOString(), for the clock
\* reading t in milliseconds: the instant 365 days after t, as the day and
\* the millisecond of the day that the ISO string spells out
expirationOf(t) == [day |-> t \div MsPerDay + 365, ms |-> t % MsPerDay]

MsgGrant(granter, grantee, amount, denom, t) ==
  ("@type" :> "/cosmos.authz.v1beta1.MsgGrant")
  @@ Prop("granter", granter)
  @@ Prop("grantee", grantee)
  @@ ("grant" :>
        [ authorization |->
            ("@type" :> "/cosmos.bank.v1beta1.SendAuthorization")
            @@ ("spend_limit" :>
                  << Prop("denom", Default(denom, "inj")) @@ Prop("amount", amount) >>),
          expiration |-> expirationOf(t) ])

MsgSpotOrder(sender, marketId, quantity, orderType) ==
  [ sender |-> sender,
    order |->
      [ market_id |-> marketId,
        order_info |->
          ( [ subaccount_id |-> getSubaccountId(sender),
              fee_recipient |-> sender,
              price |-> "0" ]
            @@ Prop("quantity", quantity) ),
        order_type |-> orderType,
        trigger_price |-> "0" ] ]
  @@ ("@type" :> "/injective.exchange.v1beta1.MsgCreateSpotMarketOrder")

\* MsgDeposit typed as a bank transfer
MsgDepositBank(sender, amount, denom) ==
  ("@type" :> "/cosmos.bank.v1beta1.MsgSend")
  @@ [ sender |-> sender, subaccount_id |-> getSubaccountId(sender) ]
  @@ ("amount" :> (Prop("denom", Default(denom, "inj")) @@ Prop("amount", amount)))

MsgDeposit(sender, amount, denom) ==
  ("@type" :> "/injective.exchange.v1beta1.MsgDeposit")
  @@ [ sender |-> sender, subaccount_id |-> getSubaccountId(sender) ]
  @@ ("amount" :> (Prop("denom", Default(denom, "inj")) @@ Prop("amount", amount)))

-----------------------------------------------------------------------------
(* TRANSLATION ENGINE (index.js 325-437).                                  *)

RECURSIVE paramOf(_, _)
\* params[name] after decoded.parameters.forEach(p => params[p.name] = p.value)
paramOf(parameters, name) ==
  IF parameters = <<>> THEN <<>>
  ELSE LET n == Len(parameters)
       IN  IF parameters[n].name = name THEN <<parameters[n].value>>
           ELSE paramOf(SubSeq(parameters, 1, n - 1), name)

\* MARKET_MAP['INJ-USDT']?.marketId || '0x000'
marketIdOf(pair) ==
  IF pair \in DOMAIN MARKET_MAP THEN Or(<<MARKET_MAP[pair].marketId>>, <<"0x000">>)[1]
  ELSE "0x000"

\* the switch on funcInfo.name (index.js 345-425): the messages and the
\* explanation, or no builder
buildMessages(name, parameters, ctx, t) ==
  LET P(key) == paramOf(parameters, key)
      sender == Or(Get(ctx, "senderAddress"), <<"inj1xxx">>)
  IN  CASE name = "transfer" ->
             [ built |-> TRUE,
               messages |-> << MsgSend(sender,
                                       Or(Get(ctx, "recipientAddress"),
                                          Or(P("to"), <<"inj1recipient">>)),
                                       P("amount"), Get(ctx, "denom")) >>,
               explanation |-> "Transfer " \o Template(P("amount")) \o " tokens" ]
        [] name = "approve" ->
             [ built |-> TRUE,
               messages |-> << MsgGrant(sender,
                                        Or(Get(ctx, "spenderAddress"),
                                           Or(P("spender"), <<"inj1spender">>)),
                                        P("amount"), Get(ctx, "denom"), t) >>,
               explanation |-> "Grant spending authorization" ]
        [] name = "transferFrom" ->
             [ built |-> TRUE,
               messages |-> << MsgSend(Or(P("from"), sender),
                                       Or(P("to"), Get(ctx, "recipientAddress")),
                                       P("amount"), Get(ctx, "denom")) >>,
               explanation |-> "Transfer from authorized account" ]
        [] name = "swapExactTokensForTokens" ->
             [ built |-> TRUE,
               messages |-> << MsgSpotOrder(sender[1], marketIdOf("INJ-USDT"),
                                            P("amountIn"), 1) >>,
               explanation |-> "Swap via spot market order" ]
        [] name = "swapExactETHForTokens" ->
             [ built |-> TRUE,
               messages |-> << MsgDeposit(sender[1], Or(Get(ctx, "ethValue"), <<"0">>), <<>>),
                               MsgSpotOrder(sender[1], marketIdOf("INJ-USDT"),
                                            Or(Get(ctx, "ethValue"), <<"0">>), 2) >>,
               explanation |-> "Deposit then swap (2-step)" ]
        [] name = "stake" ->
             [ built |-> TRUE,
               messages |-> << MsgDelegate(sender, Get(ctx, "validator"), P("amount")) >>,
               explanation |-> "Delegate " \o Template(P("amount")) \o " INJ" ]
        [] name = "withdraw" ->
             [ built |-> TRUE,
               messages |-> << MsgUndelegate(sender, Get(ctx, "validator"), P("amount")) >>,
               explanation |-> "Undelegate " \o Template(P("amount")) \o " INJ" ]
        [] name = "getReward" ->
             [ built |-> TRUE,
               messages |-> << MsgWithdrawReward(sender, Get(ctx, "validator")) >>,
               explanation |-> "Claim staking rewards" ]
        [] OTHER -> [built |-> FALSE, messages |-> <<>>, explanation |-> ""]

\* translate(decoded, ctx) at clock reading t
translate(decoded, ctx, t) ==
  LET funcInfo == Get(SELECTOR_DB, decoded.selector)
  IN  IF funcInfo = <<>>
      THEN [ success |-> FALSE,
             error |-> [code |-> "UNSUPPORTED", message |-> "Function not supported"] ]
      ELSE LET mapping == funcInfo[1].injectiveMapping
               b == buildMessages(funcInfo[1].name, decoded.parameters, ctx, t)
           IN  IF mapping.matchType = "UNSUPPORTED"
               THEN [ success |-> FALSE,
                      error |-> [code |-> "UNSUPPORTED_PATTERN", message |-> mapping.notes] ]
               ELSE IF ~b.built
               THEN [ success |-> FALSE,
                      error |-> [ code |-> "NO_BUILDER",
                                  message |-> "No builder for " \o funcInfo[1].name ] ]
               ELSE [ success |-> TRUE,
                      translation |-> [messages |-> b.messages, explanation |-> b.explanation],
                      metadata |->
                        [ confidence |-> mapping.confidence,
                          matchType |-> mapping.matchType,
                          warnings |-> IF "notes" \in DOMAIN mapping /\ mapping.notes # ""
                                       THEN <<[message |-> mapping.notes]>> ELSE <<>>,
                          originalFunction |-> funcInfo[1].signature ] ]

-----------------------------------------------------------------------------
(* POST /api/v1/translate (index.js 453-513).                              *)

\* intentMap[action] (index.js 469-478).  intentMap is an object literal:
\* a name it does not own is looked up in Object.prototype, whose members
\* are truthy; as a key of SELECTOR_DB such a member is its string.
intentMap(action) ==
  IF action = <<>> THEN <<>>
  ELSE CASE action[1] = "transfer" -> <<"0xa9059cbb">>
         [] action[1] = "approve" -> <<"0x095ea7b3">>
         [] action[1] = "swap" -> <<"0x38ed1739">>
         [] action[1] = "stake" -> <<"0xa694fc3a">>
         [] action[1] = "unstake" -> <<"0x2e1a7d4d">>
         [] action[1] = "claim" -> <<"0x3d18b912">>
         [] action[1] = "toString" -> <<"function toString() { [native code] }">>
         [] action[1] = "constructor" -> <<"function Object() { [native code] }">>
         [] OTHER -> <<>>

\* String(value) of a JSON string or a JSON integer
String(value) == IF "str" \in DOMAIN value THEN value.str ELSE NumberToString(value.num)

\* res.status(s).json({success: false, error: {code, message}})
errorResponse(s, code, message) ==
  [status |-> s, body |-> [success |-> FALSE, error |-> [code |-> code, message |-> message]]]

\* translationResponse without the 422 of a failed result
translationResponseOk(result) ==
  [status |-> 200, body |-> result]

\* translationResponse with the match type DIRECT in place of the result's
translationResponseDirect(result) ==
  IF ~result.success THEN [status |-> 422, body |-> result]
  ELSE [ status |-> 200,
         body |-> [ success |-> TRUE,
                    translation |-> result.translation,
                    metadata |->
                      [result.metadata EXCEPT !.matchType = "DIRECT"]
                      @@ [ gasEstimate |->
                             [ injectiveGas |-> "100000", injFee |-> "0.00005 INJ",
                               savings |-> "~95% cheaper" ] ] ] ]

\* the response made of translate's result (index.js 496-509)
translationResponse(result) ==
  IF ~result.success THEN [status |-> 422, body |-> result]
  ELSE [ status |-> 200,
         body |-> [ success |-> TRUE,
                    translation |-> result.translation,
                    metadata |->
                      result.metadata
                      @@ [ gasEstimate |->
                             [ injectiveGas |-> "100000", injFee |-> "0.00005 INJ",
                               savings |-> "~95% cheaper" ] ] ] ]

\* the DecodedCall of an intent (index.js 483-491)
decodedIntent(selector, funcInfo, input) ==
  LET params == IF "params" \in DOMAIN input THEN input.params ELSE <<>>
  IN  [ signature |-> funcInfo.signature,
        category |-> funcInfo.category,
        selector |-> selector,
        functionName |-> funcInfo.name,
        parameters |-> [i \in 1..Len(params) |->
                          [name |-> params[i].name, value |-> String(params[i].value)]],
        decoded |-> TRUE ]

translateRoute(body, t) ==
  LET input == Get(body, "input")
      context == IF "context" \in DOMAIN body THEN body.context ELSE <<>>
      type == Get(input[1], "type")
  IN  IF input = <<>> THEN errorResponse(400, "MISSING_INPUT", "Input required")
      ELSE IF type = <<"calldata">>
      THEN LET decoded == decodeCalldata(Get(input[1], "data"))
           IN  IF decoded.threw THEN errorResponse(500, "ERROR", decoded.error)
               ELSE IF ~decoded.decoded
               THEN errorResponse(400, "DECODE_FAILED", decoded.error)
               ELSE translationResponse(translate(decoded, context, t))
      ELSE IF type = <<"intent">>
      THEN LET action == Get(input[1], "action")
               selector == intentMap(action)
               funcInfo == Get(SELECTOR_DB, selector[1])
           IN  IF selector = <<>>
               THEN errorResponse(400, "UNKNOWN_INTENT", "Unknown: " \o Template(action))
               ELSE IF funcInfo = <<>>
               THEN errorResponse(500, "ERROR",
                                  "Cannot read properties of undefined (reading 'name')")
               ELSE translationResponse(
                      translate(decodedIntent(selector[1], funcInfo[1], input[1]),
                                context, t))
      ELSE errorResponse(400, "INVALID_TYPE", "Use calldata or intent")

-----------------------------------------------------------------------------
(* The requests of the model.                                              *)

\* calldata strings: malformed, unknown, and calls of every registry entry
CdNoPrefix ==
  "a9059cbb000000000000000000000000742d35cc6634c0532925a3b844bc9e7595f2bd"
  \o "730000000000000000000000000000000000000000000000000de0b6b3a7640000"

CdShort ==
  "0xa9059c"

CdUnknown ==
  "0xdeadbeef"

CdTransfer ==
  "0xa9059cbb000000000000000000000000742d35cc6634c0532925a3b844bc9e7595f2"
  \o "bd730000000000000000000000000000000000000000000000000de0b6b3a7640000"

CdTransferUpper ==
  "0xA9059CBB000000000000000000000000742D35CC6634C0532925A3B844BC9E7595F2"
  \o "BD730000000000000000000000000000000000000000000000000DE0B6B3A7640000"

CdTransferBare ==
  "0xa9059cbb"

CdTransferTruncated ==
  "0xa9059cbb000000000000000000000000742d35cc6634c0532925a3b844bc9e7595f2"
  \o "bd73"

CdTransferWideAddress ==
  "0xa9059cbb100000000000000000000000742d35cc6634c0532925a3b844bc9e7595f2"
  \o "bd730000000000000000000000000000000000000000000000000de0b6b3a7640000"

CdTransferOddLength ==
  "0xa9059cbb000000000000000000000000742d35cc6634c0532925a3b844bc9e7595f2"
  \o "bd730000000000000000000000000000000000000000000000000de0b6b3a76400000"

CdTransferMax ==
  "0xa9059cbb000000000000000000000000000000000000000000000000000000000000"
  \o "0001ffffffffffffffffffffffffffffffffffffffffffffffffffffffffffffffff"

CdApprove ==
  "0x095ea7b3000000000000000000000000dac17f958d2ee523a2206206994597c13d83"
  \o "1ec700000000000000000000000000000000000000000000000000000000000003e8"

CdTransferFrom ==
  "0x23b872dd000000000000000000000000742d35cc6634c0532925a3b844bc9e7595f2"
  \o "bd73000000000000000000000000c02aaa39b223fe8d0a0e5c4f27ead9083c756cc200"
  \o "0000000000000000000000000000000000000000000000000000000000002a"

CdTransferFromBare ==
  "0x23b872dd"

CdSwapTokens ==
  "0x38ed1739000000000000000000000000000000000000000000000000000000000000"
  \o "03e800000000000000000000000000000000000000000000000000000000000003de00"
  \o "000000000000000000000000000000000000000000000000000000000000a000000000"
  \o "0000000000000000742d35cc6634c0532925a3b844bc9e7595f2bd7300000000000000"
  \o "0000000000000000000000000000000000000000006553f10000000000000000000000"
  \o "00000000000000000000000000000000000000000002000000000000000000000000da"
  \o "c17f958d2ee523a2206206994597c13d831ec7000000000000000000000000c02aaa39"
  \o "b223fe8d0a0e5c4f27ead9083c756cc2"

CdSwapTokensNoPath ==
  "0x38ed1739000000000000000000000000000000000000000000000000000000000000"
  \o "03e800000000000000000000000000000000000000000000000000000000000003de00"
  \o "000000000000000000000000000000000000000000000000000000000000a000000000"
  \o "0000000000000000742d35cc6634c0532925a3b844bc9e7595f2bd7300000000000000"
  \o "0000000000000000000000000000000000000000006553f100"

CdSwapETH ==
  "0x7ff36ab5000000000000000000000000000000000000000000000000000000000000"
  \o "03de000000000000000000000000000000000000000000000000000000000000008000"
  \o "0000000000000000000000742d35cc6634c0532925a3b844bc9e7595f2bd7300000000"
  \o "0000000000000000000000000000000000000000000000006553f10000000000000000"
  \o "0000000000000000000000000000000000000000000000000200000000000000000000"
  \o "0000c02aaa39b223fe8d0a0e5c4f27ead9083c756cc2000000000000000000000000da"
  \o "c17f958d2ee523a2206206994597c13d831ec7"

CdStake ==
  "0xa694fc3a000000000000000000000000000000000000000000000000000000012a05"
  \o "f200"

CdWithdraw ==
  "0x2e1a7d4d000000000000000000000000000000000000000000000000000000000000"
  \o "0007"

CdGetReward ==
  "0x3d18b912"

CdGetRewardExtra ==
  "0x3d18b912000000000000000000000000000000000000000000000000000000000000"
  \o "0001"

CdAddLiquidity ==
  "0xe8e33700000000000000000000000000dac17f958d2ee523a2206206994597c13d83"
  \o "1ec7000000000000000000000000c02aaa39b223fe8d0a0e5c4f27ead9083c756cc200"
  \o "0000000000000000000000000000000000000000000000000000000000006400000000"
  \o "000000000000000000000000000000000000000000000000000000c800000000000000"
  \o "0000000000000000000000000000000000000000000000005a00000000000000000000"
  \o "000000000000000000000000000000000000000000b400000000000000000000000074"
  \o "2d35cc6634c0532925a3b844bc9e7595f2bd7300000000000000000000000000000000"
  \o "0000000000000000000000006553f100"

CdAddLiquidityBare ==
  "0xe8e33700"

CdFlashLoanBare ==
  "0xab9c4b5d"

CdFlashLoan ==
  "0xab9c4b5d000000000000000000000000742d35cc6634c0532925a3b844bc9e7595f2"
  \o "bd7300000000000000000000000000000000000000000000000000000000000000e000"
  \o "0000000000000000000000000000000000000000000000000000000000012000000000"
  \o "0000000000000000000000000000000000000000000000000000016000000000000000"
  \o "0000000000742d35cc6634c0532925a3b844bc9e7595f2bd7300000000000000000000"
  \o "000000000000000000000000000000000000000001a000000000000000000000000000"
  \o "0000000000000000000000000000000000000000000000000000000000000000000000"
  \o "00000000000000000000000000000001000000000000000000000000dac17f958d2ee5"
  \o "23a2206206994597c13d831ec700000000000000000000000000000000000000000000"
  \o "0000000000000000000100000000000000000000000000000000000000000000000000"
  \o "000000000003e800000000000000000000000000000000000000000000000000000000"
  \o "0000000100000000000000000000000000000000000000000000000000000000000000"
  \o "000000000000000000000000000000000000000000000000000000000000000002beef"
  \o "000000000000000000000000000000000000000000000000000000000000"

CalldataUniverse ==
  { CdNoPrefix, CdShort, CdUnknown, CdTransfer, CdTransferUpper,
    CdTransferBare, CdTransferTruncated, CdTransferWideAddress,
    CdTransferOddLength, CdTransferMax, CdApprove, CdTransferFrom,
    CdTransferFromBare,
    CdSwapTokens, CdSwapTokensNoPath, CdSwapETH, CdStake, CdWithdraw,
    CdGetReward, CdGetRewardExtra, CdAddLiquidity, CdAddLiquidityBare,
    CdFlashLoanBare, CdFlashLoan }

AddressA == "inj1abc"

AddressB == "inj1xyz"

FullContext ==
  [ senderAddress |-> AddressA,
    recipientAddress |-> AddressB,
    spenderAddress |-> "inj1spender9",
    validator |-> "injvaloper1xyz",
    denom |-> "peggy0xdAC17F958D2ee523a2206206994597C13D831ec7",
    ethValue |-> "5000" ]

Restrict(f, S) == [k \in S |-> f[k]]

\* the contexts: none or one of the fields, the sender with one more field,
\* the fields of a transfer, all fields, and empty strings in place of
\* addresses
Contexts ==
  {Restrict(FullContext, S) : S \in {T \in SUBSET DOMAIN FullContext : Cardinality(T) <= 1}}
  \cup {Restrict(FullContext, {"senderAddress", k}) : k \in DOMAIN FullContext}
  \cup { FullContext,
         Restrict(FullContext, {"senderAddress", "recipientAddress", "denom"}),
         [senderAddress |-> "", recipientAddress |-> ""] }

\* the parameter bags of an intent, as ordered name/value entries
ParamBags ==
  { <<>>,
    << [name |-> "amount", value |-> [str |-> "1000000000"]] >>,
    << [name |-> "amount", value |-> [num |-> 5000]] >>,
    << [name |-> "to", value |-> [str |-> "inj1to"]],
       [name |-> "amount", value |-> [str |-> "1000000000"]] >>,
    << [name |-> "spender", value |-> [str |-> "inj1sp"]],
       [name |-> "amount", value |-> [str |-> "7"]] >>,
    << [name |-> "amountIn", value |-> [str |-> "42"]],
       [name |-> "amount", value |-> [str |-> "43"]] >> }

Actions ==
  {"transfer", "approve", "swap", "stake", "unstake", "claim", "mint", "toString"}

Inputs ==
  {[type |-> "calldata", data |-> d] : d \in CalldataUniverse}
  \cup {[type |-> "calldata"], [type |-> "abi"], [action |-> "transfer"]}
  \cup {[type |-> "intent", action |-> a, params |-> b] : a \in Actions, b \in ParamBags}
  \cup {[type |-> "intent", action |-> a] : a \in Actions}
  \cup {[type |-> "intent"]}

TranslateRequests ==
  {[op |-> "translate", body |-> [input |-> i, context |-> c]] :
     i \in Inputs, c \in Contexts}
  \cup {[op |-> "translate", body |-> [input |-> i]] : i \in Inputs}
  \cup {[op |-> "translate", body |-> [context |-> FullContext]],
        [op |-> "translate", body |-> <<>>]}

PatternUniverse ==
  { "transfer(address,uint256)",
    "approve(address,uint256)",
    "flashLoan(address,uint256)",
    "swapExactETHForTokens(uint256,address[],address,uint256)",
    "flashLoan(address,address[],uint256[],uint256[],address,bytes,uint16)",
    "removeLiquidity(address,address,uint256)",
    "mint(address,uint256)",
    "FLASHMINT(uint256)" }

Inputs2 == <<[type |-> "address"], [type |-> "uint256"]>>

AbiTransfer == [name |-> "transfer", type |-> "function", inputs |-> Inputs2]

AbiApprove == [name |-> "approve", type |-> "function", inputs |-> Inputs2]

AbiMint == [name |-> "mint", type |-> "function", inputs |-> Inputs2]

AbiFlashLoan ==
  [ name |-> "flashLoan",
    type |-> "function",
    inputs |-> << [type |-> "address"], [type |-> "address[]"], [type |-> "uint256[]"],
                  [type |-> "uint256[]"], [type |-> "address"], [type |-> "bytes"],
                  [type |-> "uint16"] >> ]

AbiSwapETH ==
  [ name |-> "swapExactETHForTokens",
    type |-> "function",
    inputs |-> << [type |-> "uint256"], [type |-> "address[]"], [type |-> "address"],
                  [type |-> "uint256"] >> ]

AbiGetReward == [name |-> "getReward", type |-> "function"]

AbiNameless == [type |-> "function"]

AbiEvent ==
  [ name |-> "Transfer",
    type |-> "event",
    inputs |-> <<[type |-> "address"], [type |-> "address"], [type |-> "uint256"]>> ]

AbiUniverse ==
  { AbiTransfer, AbiApprove, AbiMint, AbiFlashLoan, AbiSwapETH, AbiGetReward,
    AbiNameless, AbiEvent }

CompatAbiUniverse == {AbiTransfer, AbiFlashLoan, AbiMint, AbiEvent}

\* compatibility bodies: at most MaxPatterns patterns, at most MaxAbi ABI
\* entries, one or two patterns with one or two ABI entries, empty lists,
\* and no field at all
CompatBodies ==
  UNION {{[patterns |-> p] : p \in [1..k -> PatternUniverse]} : k \in 0..MaxPatterns}
  \cup UNION {{[contractAbi |-> a] : a \in [1..k -> CompatAbiUniverse]} : k \in 0..MaxAbi}
  \cup UNION { {[patterns |-> p, contractAbi |-> a] :
                  p \in [1..ij[1] -> PatternUniverse], a \in [1..ij[2] -> CompatAbiUniverse]} :
               ij \in {<<0, 0>>, <<1, 1>>, <<1, 2>>, <<2, 1>>} }
  \cup {<<>>}

CompatRequests == {[op |-> "compatibility", body |-> b] : b \in CompatBodies}

\* long pattern lists: s registered DIRECT, p registered SEMANTIC and u
\* unregistered signatures
ScoreBodies ==
  { [patterns |-> [i \in 1..(spu[1] + spu[2] + spu[3]) |->
                     IF i <= spu[1] THEN "transfer(address,uint256)"
                     ELSE IF i <= spu[1] + spu[2] THEN "approve(address,uint256)"
                     ELSE "mint(address,uint256)"]] :
    spu \in {x \in (0..MaxScoreLen) \X (0..MaxScoreLen) \X (0..MaxScoreLen) :
               x[1] + x[2] + x[3] \in (MaxPatterns + 1)..MaxScoreLen} }

ScoreRequests == {[op |-> "compatibility", body |-> b] : b \in ScoreBodies}

\* longer ABIs: s functions registered DIRECT, p registered SEMANTIC and u
\* registered UNSUPPORTED
BlockAbis ==
  { [i \in 1..(spu[1] + spu[2] + spu[3]) |->
       IF i <= spu[1] THEN AbiTransfer
       ELSE IF i <= spu[1] + spu[2] THEN AbiApprove
       ELSE AbiFlashLoan] :
    spu \in {x \in (0..MaxFunctions) \X (0..MaxFunctions) \X (0..MaxFunctions) :
               x[1] + x[2] + x[3] \in (MaxAbi + 1)..MaxFunctions} }

EstimateBodies ==
  UNION {{[contractAbi |-> a] : a \in [1..k -> AbiUniverse]} : k \in 0..MaxAbi}
  \cup {[contractAbi |-> a] : a \in BlockAbis}
  \cup {<<>>}

EstimateRequests == {[op |-> "estimate", body |-> b] : b \in EstimateBodies}

-----------------------------------------------------------------------------
(* The server.                                                             *)

NoRequest == [op |-> "none"]

NoResponse == [status |-> 0]

Init ==
  /\ now = 0
  /\ req = NoRequest
  /\ resp = NoResponse
  /\ prev = <<>>
  /\ tables = <<SELECTOR_DB, MARKET_MAP, DENOM_MAP>>

\* the clock advances by a millisecond
Tick ==
  /\ now < MaxClock
  /\ now' = now + 1
  /\ UNCHANGED <<req, resp, prev, tables>>

\* a new request r is handled by a handler that empties the market table
FreshClearing(r, out) ==
  /\ req = NoRequest
  /\ req' = r
  /\ resp' = out
  /\ prev' = <<>>
  /\ tables' = <<tables[1], <<>>, tables[3]>>
  /\ UNCHANGED now

\* a new request r is handled and answered by out; the handlers read the
\* tables and the body of r and assign to neither
Fresh(r, out) ==
  /\ req = NoRequest
  /\ req' = r
  /\ resp' = out
  /\ prev' = <<>>
  /\ UNCHANGED <<now, tables>>

\* the outstanding request is sent again and answered by out
Again(out) ==
  /\ resp' = out
  /\ prev' = <<resp>>
  /\ UNCHANGED <<now, req, tables>>

Translate ==
  \/ \E r \in TranslateRequests : Fresh(r, translateRoute(r.body, now))
  \/ req.op = "translate" /\ Again(translateRoute(req.body, now))

Compatibility ==
  \/ \E r \in CompatRequests \cup ScoreRequests : Fresh(r, compatibility(r.body))
  \/ req.op = "compatibility" /\ Again(compatibility(req.body))

Estimate ==
  \/ \E r \in EstimateRequests : Fresh(r, estimate(r.body))
  \/ req.op = "estimate" /\ Again(estimate(req.body))

\* the client is done with the request
Close ==
  /\ req # NoRequest
  /\ req' = NoRequest
  /\ resp' = NoResponse
  /\ prev' = <<>>
  /\ UNCHANGED <<now, tables>>

Next == Tick \/ Translate \/ Compatibility \/ Estimate \/ Close

Spec == Init /\ [][Next]_vars

-----------------------------------------------------------------------------
(* Properties of the responses.  In a state with req.op = "translate",     *)
(* "compatibility" or "estimate", resp is the response of the route to     *)
(* req.body, and prev holds the response to the same body sent before, if  *)
(* it was sent before.                                                     *)

\* the patterns and the context of a request body
patternsOf(body) == IF "patterns" \in DOMAIN body THEN body.patterns ELSE <<>>

abiOf(body) == IF "contractAbi" \in DOMAIN body THEN body.contractAbi ELSE <<>>

contextOf(body) == IF "context" \in DOMAIN body THEN body.context ELSE <<>>

TransferIntent ==
  [ type |-> "intent", action |-> "transfer",
    params |-> <<[name |-> "amount", value |-> [str |-> "1000000000"]]>> ]

TransferAsked ==
  /\ req.op = "translate"
  /\ Get(req.body, "input") = <<TransferIntent>>
  /\ Get(contextOf(req.body), "senderAddress") = <<AddressA>>
  /\ Get(contextOf(req.body), "recipientAddress") = <<AddressB>>

(* C1: translating the intent transfer with the amount "1000000000" and a  *)
(* context whose sender is A and whose recipient is B succeeds with        *)
(* exactly one message, a MsgSend from A to B of the amount "1000000000"   *)
(* unchanged, and the match type DIRECT in the metadata.                   *)
C1_TransferIntent ==
  TransferAsked =>
    /\ resp.status = 200
    /\ resp.body.success
    /\ Len(resp.body.translation.messages) = 1
    /\ LET m == resp.body.translation.messages[1]
       IN  /\ m["@type"] = "/cosmos.bank.v1beta1.MsgSend"
           /\ Len(m.amount) = 1
           /\ m.amount[1].amount = "1000000000"
           /\ m.from_address = AddressA
           /\ m.to_address = AddressB
    /\ resp.body.metadata.matchType = "DIRECT"

C1_Witness ==
  /\ TransferAsked
  /\ contextOf(req.body) = [senderAddress |-> AddressA, recipientAddress |-> AddressB]
  /\ resp.status = 200
  /\ Len(resp.body.translation.messages) = 1

\* the request carries calldata that decodes to a call of a registry entry
\* whose match type is UNSUPPORTED
UnsupportedCallAsked ==
  /\ req.op = "translate"
  /\ "input" \in DOMAIN req.body
  /\ Get(req.body.input, "type") = <<"calldata">>
  /\ LET decoded == decodeCalldata(Get(req.body.input, "data"))
     IN  /\ ~decoded.threw
         /\ decoded.decoded
         /\ SELECTOR_DB[decoded.selector].injectiveMapping.matchType = "UNSUPPORTED"

(* C2: a decoded call of a registry entry whose match type is UNSUPPORTED  *)
(* (addLiquidity, flashLoan) fails with the code UNSUPPORTED_PATTERN and   *)
(* the status 422, and the response holds no translation and so no         *)
(* message, whatever the context and the parameters are.                   *)
C2_UnsupportedPattern ==
  UnsupportedCallAsked =>
    /\ resp.status = 422
    /\ ~resp.body.success
    /\ resp.body.error.code = "UNSUPPORTED_PATTERN"
    /\ "translation" \notin DOMAIN resp.body

C2_Witness ==
  /\ UnsupportedCallAsked
  /\ req.body.input.data = CdFlashLoan
  /\ Len(decodeCalldata(<<CdFlashLoan>>).parameters) = 7
  /\ contextOf(req.body) = FullContext
  /\ resp.status = 422

(* C3: a request sent twice gets the same response twice: the second       *)
(* response to a body equals the first in every field, whenever the two    *)
(* are sent.                                                               *)
C3_Idempotent ==
  prev # <<>> => resp = prev[1]

\* the verdict the rule gives a pattern
VerdictRule(pattern) ==
  LET selector == slice(id(pattern), 0, 10)
      lower == toLowerCase(pattern)
  IN  IF selector \in DOMAIN SELECTOR_DB
      THEN CASE SELECTOR_DB[selector].injectiveMapping.matchType = "DIRECT" -> "SUPPORTED"
             [] SELECTOR_DB[selector].injectiveMapping.matchType
                  \in {"SEMANTIC", "COMPOSITE"} -> "PARTIAL"
             [] SELECTOR_DB[selector].injectiveMapping.matchType = "UNSUPPORTED" ->
                  "UNSUPPORTED"
      ELSE IF includes(lower, "flash") \/ includes(lower, "liquidity") THEN "UNSUPPORTED"
      ELSE "UNKNOWN"

HeuristicNotes == {"Flash loans not supported", "AMM not supported", "Not in database"}

(* C4: every pattern of a scored request gets the verdict of the rule:     *)
(* from the registry entry of its selector when there is one (SUPPORTED    *)
(* for DIRECT, PARTIAL for SEMANTIC and COMPOSITE, UNSUPPORTED for         *)
(* UNSUPPORTED), else UNSUPPORTED when its lower-cased text contains       *)
(* 'flash' or 'liquidity' and UNKNOWN otherwise.  The verdict of a         *)
(* registered pattern carries the entry's confidence and notes, never the  *)
(* notes of the keyword heuristic.                                         *)
C4_VerdictRule ==
  (req.op = "compatibility" /\ resp.status = 200) =>
    LET asked == allPatternsOf(req.body)
        verdicts == resp.body.patterns
    IN  /\ Len(verdicts) = Len(asked)
        /\ \A i \in 1..Len(asked) :
             LET selector == slice(id(asked[i]), 0, 10)
             IN  /\ verdicts[i].pattern = asked[i]
                 /\ verdicts[i].status = VerdictRule(asked[i])
                 /\ selector \in DOMAIN SELECTOR_DB =>
                      /\ "confidence" \in DOMAIN verdicts[i]
                      /\ verdicts[i].confidence =
                           SELECTOR_DB[selector].injectiveMapping.confidence
                      /\ \A n \in HeuristicNotes : Get(verdicts[i], "notes") # <<n>>
                 /\ selector \notin DOMAIN SELECTOR_DB =>
                      /\ "confidence" \notin DOMAIN verdicts[i]
                      /\ verdicts[i].notes \in HeuristicNotes

C4_Witness ==
  /\ req.op = "compatibility"
  /\ patternsOf(req.body) =
       << "flashLoan(address,address[],uint256[],uint256[],address,bytes,uint16)",
          "FLASHMINT(uint256)",
          "swapExactETHForTokens(uint256,address[],address,uint256)" >>
  /\ resp.status = 200
  /\ resp.body.patterns[1].notes = "Flash loans not supported on Injective"
  /\ resp.body.patterns[2].notes = "Flash loans not supported"
  /\ resp.body.patterns[3].status = "PARTIAL"

(* C5: for every non-empty pattern list the score is                       *)
(* round(100 * (supported + 0.5 * partial) / total), an integer of 0..100; *)
(* the status is MOSTLY_COMPATIBLE from 80, PARTIALLY_COMPATIBLE from 50   *)
(* to 79 and INCOMPATIBLE below 50; a list of DIRECT registered            *)
(* signatures only scores 100 and is MOSTLY_COMPATIBLE.                    *)
C5_ScoreIsRounded ==
  (req.op = "compatibility" /\ Len(allPatternsOf(req.body)) > 0) =>
    /\ resp.status = 200
    /\ LET verdicts == resp.body.patterns
           total == Len(verdicts)
           supported == Count(verdicts, {"SUPPORTED"})
           partial == Count(verdicts, {"PARTIAL"})
           overall == resp.body.overallCompatibility
       IN  /\ overall.score = (200 * supported + 100 * partial + total) \div (2 * total)
           /\ overall.score \in 0..100
           /\ overall.status =
                IF overall.score >= 80 THEN "MOSTLY_COMPATIBLE"
                ELSE IF overall.score >= 50 THEN "PARTIALLY_COMPATIBLE"
                ELSE "INCOMPATIBLE"
           /\ supported = total =>
                overall.score = 100 /\ overall.status = "MOSTLY_COMPATIBLE"

ExamplePatterns ==
  <<"transfer(address,uint256)", "approve(address,uint256)", "flashLoan(address,uint256)">>

NoPatternAsked ==
  /\ req.op = "compatibility"
  /\ patternsOf(req.body) = <<>>
  /\ \A i \in 1..Len(abiOf(req.body)) : Get(abiOf(req.body)[i], "type") # <<"function">>

(* C7: a compatibility request with no pattern and no function in its ABI  *)
(* is answered 400 with the code MISSING_INPUT, and the response holds no  *)
(* score, no status and no verdicts.                                       *)
C7_MissingInput ==
  NoPatternAsked =>
    /\ resp.status = 400
    /\ ~resp.body.success
    /\ resp.body.error.code = "MISSING_INPUT"
    /\ DOMAIN resp.body = {"success", "error"}

C7_Witness ==
  /\ NoPatternAsked
  /\ req.body = [contractAbi |-> <<AbiEvent>>]
  /\ resp.status = 400

\* the class the rule gives a function of an ABI
ClassRule(func) ==
  LET selector == slice(id(signatureOf(func)), 0, 10)
  IN  IF selector \notin DOMAIN SELECTOR_DB THEN "unsupported"
      ELSE CASE SELECTOR_DB[selector].injectiveMapping.matchType = "DIRECT" -> "supported"
             [] SELECTOR_DB[selector].injectiveMapping.matchType
                  \in {"SEMANTIC", "COMPOSITE"} -> "partial"
             [] OTHER -> "unsupported"

(* C8: the estimator gives every function of the ABI the class of the      *)
(* registry entry of its signature: supported for DIRECT, partial for      *)
(* SEMANTIC and COMPOSITE, unsupported for UNSUPPORTED and for a signature *)
(* that is not in the registry; the three counts are the numbers of        *)
(* functions of each class.                                                *)
C8_Classification ==
  (req.op = "estimate" /\ resp.status = 200) =>
    LET functions == SelectSeq(abiOf(req.body), LAMBDA i : Get(i, "type") = <<"function">>)
        f == resp.body.analysis.functions
    IN  /\ Len(f.details) = Len(functions)
        /\ \A i \in 1..Len(functions) : f.details[i].status = ClassRule(functions[i])
        /\ f.supported = Cardinality({i \in 1..Len(functions) : ClassRule(functions[i]) = "supported"})
        /\ f.partial = Cardinality({i \in 1..Len(functions) : ClassRule(functions[i]) = "partial"})
        /\ f.unsupported = Cardinality({i \in 1..Len(functions) : ClassRule(functions[i]) = "unsupported"})

\* the band of the complexity weighted / total, a ratio of integers
BandRule(weighted, total) ==
  IF 2 * weighted < 3 * total THEN "STRAIGHTFORWARD"
  ELSE IF 2 * weighted < 5 * total THEN "MODERATE"
  ELSE IF 2 * weighted < 7 * total THEN "COMPLEX"
  ELSE "REQUIRES_REDESIGN"

(* C9: for an ABI with at least one function the band of the estimate is   *)
(* the band of (supported + 2 * partial + 4 * unsupported) / total:        *)
(* STRAIGHTFORWARD below 1.5, MODERATE from 1.5, COMPLEX from 2.5,         *)
(* REQUIRES_REDESIGN from 3.5; total is the number of functions; one       *)
(* DIRECT and one UNSUPPORTED function make 2.5 and COMPLEX.               *)
C9_ComplexityBand ==
  (req.op = "estimate" /\ resp.status = 200 /\ functionsOf(abiOf(req.body)) # <<>>) =>
    LET f == resp.body.analysis.functions
        weighted == f.supported + 2 * f.partial + 4 * f.unsupported
    IN  /\ f.total = Len(functionsOf(abiOf(req.body)))
        /\ resp.body.summary.feasibility = BandRule(weighted, f.total)
        /\ (f.total = 2 /\ f.supported = 1 /\ f.unsupported = 1) =>
             resp.body.summary.feasibility = "COMPLEX"

C9_Witness ==
  /\ req.op = "estimate"
  /\ req.body = [contractAbi |-> <<AbiTransfer, AbiFlashLoan>>]
  /\ resp.status = 200
  /\ resp.body.analysis.functions.supported = 1
  /\ resp.body.analysis.functions.unsupported = 1
  /\ resp.body.summary.feasibility = "COMPLEX"

(* C10: the blockers of an estimate are one entry when the unsupported     *)
(* count is above 0 and none when it is 0, never more than one.            *)
C10_Blockers ==
  (req.op = "estimate" /\ resp.status = 200) =>
    LET details == resp.body.analysis.functions.details
        unsupported == Count(details, {"unsupported"})
    IN  /\ resp.body.analysis.functions.unsupported = unsupported
        /\ Len(resp.body.blockers) = IF unsupported > 0 THEN 1 ELSE 0

C10_Witness ==
  /\ req.op = "estimate"
  /\ resp.status = 200
  /\ resp.body.analysis.functions.unsupported = 2
  /\ Len(resp.body.blockers) = 1

-----------------------------------------------------------------------------
(* Properties of the translation pipeline.                                 *)

\* the request was translated: the route answered it with a translation
Translated == req.op = "translate" /\ resp.status = 200

\* the DecodedCall of the input of a translated request
callOf(body) ==
  IF body.input.type = "calldata" THEN decodeCalldata(Get(body.input, "data"))
  ELSE decodedIntent(intentMap(Get(body.input, "action"))[1],
                     SELECTOR_DB[intentMap(Get(body.input, "action"))[1]],
                     body.input)

\* the address the priority rule resolves: the context field when it is
\* there, else the decoded parameter when it is there, else the placeholder
Resolve(field, parameter, placeholder) ==
  IF field # <<>> /\ field[1] # "" THEN field
  ELSE IF parameter # <<>> /\ parameter[1] # "" THEN parameter
  ELSE <<placeholder>>

\* the addresses the priority rule puts into the messages of a call of
\* the function name with the given parameters under ctx, as pairs of a
\* message property and its value
AddressRule(name, parameters, ctx) ==
  LET sender == Resolve(Get(ctx, "senderAddress"), <<>>, "inj1xxx")
      validator == Resolve(Get(ctx, "validator"), <<>>, "injvaloper1xxx")
  IN  CASE name = "transfer" ->
             << <<"from_address", sender>>,
                <<"to_address", Resolve(Get(ctx, "recipientAddress"),
                                        paramOf(parameters, "to"), "inj1recipient")>> >>
        [] name = "transferFrom" ->
             << <<"from_address", Resolve(Get(ctx, "senderAddress"),
                                          paramOf(parameters, "from"), "inj1xxx")>>,
                <<"to_address", Resolve(Get(ctx, "recipientAddress"),
                                        paramOf(parameters, "to"), "inj1recipient")>> >>
        [] name = "approve" ->
             << <<"granter", sender>>,
                <<"grantee", Resolve(Get(ctx, "spenderAddress"),
                                     paramOf(parameters, "spender"), "inj1spender")>> >>
        [] name \in {"stake", "withdraw", "getReward"} ->
             << <<"delegator_address", sender>>, <<"validator_address", validator>> >>
        [] OTHER -> << <<"sender", sender>> >>

(* C11: in every translation, each actor address of each message is the    *)
(* context field when the context holds it, else the decoded parameter of  *)
(* the matching role when the call holds it, else the placeholder; no      *)
(* address property of a message is left undefined.                        *)
C11_AddressPriority ==
  Translated =>
    LET call == callOf(req.body)
        rule == AddressRule(call.functionName, call.parameters, contextOf(req.body))
        messages == resp.body.translation.messages
    IN  \A i \in 1..Len(messages) : \A j \in 1..Len(rule) :
          Get(messages[i], rule[j][1]) = rule[j][2]

\* the name of the amount parameter of a function that has one
AmountName(name) ==
  IF name = "swapExactTokensForTokens" THEN <<"amountIn">>
  ELSE IF name \in {"transfer", "approve", "transferFrom", "stake", "withdraw"}
  THEN <<"amount">>
  ELSE <<>>

\* the amount or quantity property of a message, if it has one
AmountOf(m) ==
  CASE m["@type"] = "/cosmos.bank.v1beta1.MsgSend" -> Get(m["amount"][1], "amount")
    [] m["@type"] = "/cosmos.authz.v1beta1.MsgGrant" ->
         Get(m["grant"]["authorization"]["spend_limit"][1], "amount")
    [] m["@type"] = "/injective.exchange.v1beta1.MsgCreateSpotMarketOrder" ->
         Get(m["order"]["order_info"], "quantity")
    [] OTHER -> Get(m["amount"], "amount")

\* the decimal numerals of the amounts that the calldata of the model
\* encodes
EncodedAmounts ==
  << <<CdTransfer, "1000000000000000000">>,
     <<CdTransferUpper, "1000000000000000000">>,
     <<CdTransferMax, "115792089237316195423570985008687907853"
                      \o "269984665640564039457584007913129639935">>,
     <<CdApprove, "1000">>,
     <<CdTransferFrom, "42">>,
     <<CdSwapTokens, "1000">>,
     <<CdStake, "5000000000">>,
     <<CdWithdraw, "7">> >>

(* C12: when the decoded call of a translation carries the amount          *)
(* parameter of its function (amountIn of swapExactTokensForTokens,        *)
(* amount of transfer, approve, transferFrom, stake and withdraw), the     *)
(* amount or quantity of every message is that parameter's string, and     *)
(* for calldata it is the decimal numeral of the encoded word.             *)
C12_AmountUnchanged ==
  Translated =>
    LET call == callOf(req.body)
        key == AmountName(call.functionName)
        messages == resp.body.translation.messages
    IN  /\ (key # <<>> /\ paramOf(call.parameters, key[1]) # <<>>) =>
             \A i \in 1..Len(messages) :
               AmountOf(messages[i]) = paramOf(call.parameters, key[1])
        /\ \A k \in 1..Len(EncodedAmounts) :
             Get(req.body.input, "data") = <<EncodedAmounts[k][1]>> =>
               \A i \in 1..Len(messages) :
                 AmountOf(messages[i]) = <<EncodedAmounts[k][2]>>

C12_Witness ==
  /\ Translated
  /\ Get(req.body.input, "data") = <<CdTransferMax>>
  /\ AmountOf(resp.body.translation.messages[1]) = <<EncodedAmounts[3][2]>>

(* C13: the metadata of every translation holds the confidence and the     *)
(* match type of the registry mapping of the decoded call's selector, the  *)
(* mapping's notes as the one warning (no warning when it has no notes),   *)
(* and the signature of that registry entry as the original function.      *)
C13_MetadataFromRegistry ==
  Translated =>
    LET entry == SELECTOR_DB[callOf(req.body).selector]
        metadata == resp.body.metadata
    IN  /\ metadata.confidence = entry.injectiveMapping.confidence
        /\ metadata.matchType = entry.injectiveMapping.matchType
        /\ metadata.warnings =
             IF "notes" \in DOMAIN entry.injectiveMapping
             THEN <<[message |-> entry.injectiveMapping.notes]>> ELSE <<>>
        /\ metadata.originalFunction = entry.signature

C13_Witness ==
  /\ Translated
  /\ Get(req.body.input, "data") = <<CdSwapETH>>
  /\ resp.body.metadata.matchType = "COMPOSITE"
  /\ Len(resp.body.metadata.warnings) = 1

\* the request carries an input of the given type
InputAsked(type) ==
  /\ req.op = "translate"
  /\ "input" \in DOMAIN req.body
  /\ Get(req.body.input, "type") = <<type>>

\* the calldata of the request has the prefix 0x and a full selector
WellFormed(data) == data # <<>> /\ startsWith(data[1], "0x") /\ Len(data[1]) >= 10

(* C14: calldata that is absent, does not begin with 0x or is shorter      *)
(* than the prefix and eight hex digits is answered with a 400-class       *)
(* status, never a 500-class one.                                          *)
C14_MalformedIs400 ==
  (InputAsked("calldata") /\ ~WellFormed(Get(req.body.input, "data"))) =>
    /\ resp.status \in 400..499
    /\ ~resp.body.success

\* the registry entry of the selector of well-formed calldata, if any
EntryOf(data) == Get(SELECTOR_DB, toLowerCase(slice(data[1], 0, 10)))

(* C15: for well-formed calldata of a registry entry with a non-empty      *)
(* parameter shape, the call is decoded only with one parameter per entry  *)
(* of the shape, named in shape order; otherwise (bytes that do not        *)
(* decode against the shape, truncated bytes, no parameter bytes) the      *)
(* answer is DECODE_FAILED and holds no translation.                       *)
C15_DecodeFailure ==
  ( /\ InputAsked("calldata")
    /\ WellFormed(Get(req.body.input, "data"))
    /\ EntryOf(Get(req.body.input, "data")) # <<>>
    /\ Len(EntryOf(Get(req.body.input, "data"))[1].paramTypes) > 0 ) =>
    LET entry == EntryOf(Get(req.body.input, "data"))[1]
        decoded == decodeCalldata(Get(req.body.input, "data"))
    IN  IF decoded.decoded /\ Len(decoded.parameters) = Len(entry.paramTypes)
        THEN /\ \A i \in 1..Len(entry.paramTypes) :
                  decoded.parameters[i].name = entry.paramNames[i]
             /\ resp.status \in {200, 422}
        ELSE /\ ~decoded.decoded
             /\ resp.status = 400
             /\ resp.body.error.code = "DECODE_FAILED"
             /\ "translation" \notin DOMAIN resp.body

(* C16: well-formed calldata whose selector has no registry entry decodes  *)
(* without an error to an unresolved call that carries the selector, the   *)
(* registry has no mapping for it, and the response does not report a      *)
(* decode failure.                                                         *)
C16_Unresolved ==
  ( /\ InputAsked("calldata")
    /\ WellFormed(Get(req.body.input, "data"))
    /\ EntryOf(Get(req.body.input, "data")) = <<>> ) =>
    LET decoded == decodeCalldata(Get(req.body.input, "data"))
    IN  /\ ~decoded.threw
        /\ ~decoded.decoded
        /\ decoded.selector = toLowerCase(slice(req.body.input.data, 0, 10))
        /\ decoded.selector \notin DOMAIN SELECTOR_DB
        /\ ~resp.body.success
        /\ resp.body.error.code # "DECODE_FAILED"

\* the names of the action-to-selector table
IntentTable == {"transfer", "approve", "swap", "stake", "unstake", "claim"}

(* C17: an intent whose action is one of the six names of the table is     *)
(* normalized to a call whose selector is a key of the registry and whose  *)
(* function name, signature and category are the entry's; an intent with   *)
(* any other action fails with UNKNOWN_INTENT and the status 400, and      *)
(* nothing is translated.                                                  *)
C17_IntentTable ==
  InputAsked("intent") =>
    IF Get(req.body.input, "action") # <<>> /\ req.body.input.action \in IntentTable
    THEN LET call == callOf(req.body)
         IN  /\ call.selector \in DOMAIN SELECTOR_DB
             /\ call.decoded
             /\ call.functionName = SELECTOR_DB[call.selector].name
             /\ call.signature = SELECTOR_DB[call.selector].signature
             /\ call.category = SELECTOR_DB[call.selector].category
             /\ resp.status = 200
             /\ resp.body.metadata.originalFunction = call.signature
    ELSE /\ resp.status = 400
         /\ resp.body.error.code = "UNKNOWN_INTENT"
         /\ "translation" \notin DOMAIN resp.body

(* C18: in every entry of the registry the server holds, the match type   *)
(* is UNSUPPORTED exactly when the confidence is 0 and exactly when the    *)
(* target message type is absent; every other entry has a confidence above *)
(* 0 and at most 1 (held in hundredths) and a target message type, and a   *)
(* COMPOSITE entry has a non-empty list of steps.                          *)
C18_RegistryInvariant ==
  \A selector \in DOMAIN tables[1] :
    LET mapping == tables[1][selector].injectiveMapping
    IN  /\ mapping.matchType = "UNSUPPORTED" <=> mapping.confidence = 0
        /\ mapping.confidence = 0 <=> mapping.msgType = <<>>
        /\ mapping.matchType # "UNSUPPORTED" =>
             /\ mapping.confidence \in 1..100
             /\ mapping.msgType # <<>>
        /\ mapping.matchType = "COMPOSITE" =>
             /\ "steps" \in DOMAIN mapping
             /\ Len(mapping.steps) > 0

C18_Witness ==
  /\ UnsupportedCallAsked
  /\ req.body.input.data = CdAddLiquidity
  /\ tables[1] = SELECTOR_DB
  /\ tables[1]["0xe8e33700"].injectiveMapping.msgType = <<>>
  /\ tables[1]["0x7ff36ab5"].injectiveMapping.matchType = "COMPOSITE"
  /\ resp.body.error.message = tables[1]["0xe8e33700"].injectiveMapping.notes

(* C19: no step of the server changes the signature registry, the market   *)
(* table or the denom table, and while a request is outstanding its body   *)
(* (the input with its parameter bag, and the context) stays as the        *)
(* client gave it, however often it is handled.                            *)
C19_ReadOnly ==
  [][ /\ tables' = tables
      /\ tables = <<SELECTOR_DB, MARKET_MAP, DENOM_MAP>>
      /\ (req # NoRequest /\ req' # NoRequest) => req' = req ]_vars

C19_Witness ==
  /\ prev # <<>>
  /\ now = MaxClock
  /\ req.op = "translate"
  /\ Get(req.body, "context") = <<FullContext>>
  /\ tables = <<SELECTOR_DB, MARKET_MAP, DENOM_MAP>>

\* the message types a mapping names: its steps when it is COMPOSITE, else
\* its one target message type
TargetTypes(mapping) ==
  IF mapping.matchType = "COMPOSITE" THEN mapping.steps ELSE mapping.msgType

(* C20: every translation holds at least one message, and the types of     *)
(* its messages, in order, are the target message type of the registry     *)
(* mapping of the call, or the mapping's steps in their order when it is   *)
(* COMPOSITE: swapExactETHForTokens gives MsgDeposit and then              *)
(* MsgCreateSpotMarketOrder.  Every entry that is not UNSUPPORTED has a    *)
(* builder.                                                                *)
C20_MessageTypes ==
  /\ Translated =>
       LET messages == resp.body.translation.messages
       IN  /\ Len(messages) > 0
           /\ [i \in 1..Len(messages) |-> messages[i]["@type"]]
                = TargetTypes(SELECTOR_DB[callOf(req.body).selector].injectiveMapping)
  /\ req.op = "translate" =>
       \A selector \in DOMAIN SELECTOR_DB :
         SELECTOR_DB[selector].injectiveMapping.matchType # "UNSUPPORTED" =>
           buildMessages(SELECTOR_DB[selector].name, <<>>, contextOf(req.body), now).built

C20_Witness ==
  /\ Translated
  /\ Get(req.body.input, "data") = <<CdSwapETH>>
  /\ Len(resp.body.translation.messages) = 2
  /\ resp.body.translation.messages[1]["@type"] = "/injective.exchange.v1beta1.MsgDeposit"
  /\ resp.body.translation.messages[2]["@type"]
       = "/injective.exchange.v1beta1.MsgCreateSpotMarketOrder"

-----------------------------------------------------------------------------
(* Properties of the registry against the builder, and of the estimate.    *)

\* the error code of the response, when it carries an error
errorCodeOf(response) ==
  IF "body" \in DOMAIN response /\ "error" \in DOMAIN response.body
  THEN <<response.body.error.code>> ELSE <<>>

(* C21: every registry entry whose mapping is not UNSUPPORTED has a case   *)
(* in the switch of translate, so translate succeeds on a call of each     *)
(* such entry, and no answer of the translate route, to calldata or to an  *)
(* intent, carries the error NO_BUILDER.                                   *)
C21_BuilderCoverage ==
  /\ \A selector \in DOMAIN tables[1] :
       tables[1][selector].injectiveMapping.matchType # "UNSUPPORTED" =>
         translate([selector |-> selector, parameters |-> <<>>], <<>>, now).success
  /\ req.op = "translate" =>
       /\ errorCodeOf(resp) # <<"NO_BUILDER">>
       /\ prev # <<>> => errorCodeOf(prev[1]) # <<"NO_BUILDER">>

\* the intent claim, the last case of the switch, was translated
C21_Witness ==
  /\ Translated
  /\ req.body.input.type = "intent"
  /\ Get(req.body.input, "action") = <<"claim">>
  /\ callOf(req.body).selector \in DOMAIN tables[1]
  /\ tables[1][callOf(req.body).selector].injectiveMapping.matchType # "UNSUPPORTED"
  /\ resp.body.translation.messages[1]["@type"]
       = "/cosmos.distribution.v1beta1.MsgWithdrawDelegatorReward"

\* the request was estimated: the route answered it with an estimate
Estimated == req.op = "estimate" /\ resp.status = 200

(* C22: in every estimate the reported total of functions is the number    *)
(* of per-function detail entries and is supported + partial +             *)
(* unsupported, for every non-empty contractAbi, one without an entry of   *)
(* type function included.                                                 *)
C22_TotalIsCount ==
  Estimated =>
    LET functions == resp.body.analysis.functions
    IN  /\ functions.total = Len(functions.details)
        /\ functions.total = functions.supported + functions.partial + functions.unsupported

=============================================================================
